---- MODULE Spec2Model ----
(***************************************************************************)
(* A model of the transform loops of schematics (src/schematics/           *)
(* transforms.py): import_loop, export_loop, sort_dict and the Role        *)
(* filtering algebra.                                                      *)
(*                                                                         *)
(* Every operation is a pure function of its arguments, so the state       *)
(* machine is a caller: from "idle" it calls one operation with arguments  *)
(* drawn from bounded sets, which records the call and what it returned    *)
(* (pc = "done"); Return goes back to "idle".                              *)
(*                                                                         *)
(* Python values are strings: the sentinel Undefined, None, and tokens for *)
(* raw, native and primitive values.  A dict is a function, an ordered     *)
(* dict or a list a sequence.                                              *)
(***************************************************************************)
EXTENDS Integers, Sequences, FiniteSets, TLC

VARIABLES pc, call, ret

vars == <<pc, call, ret>>

Undefined == "Undefined"

None == "None"

\* The empty dict {} and the restriction of a dict to a set of keys.
EmptyDict == [k \in {} |-> None]

Restrict(f, S) == [k \in (DOMAIN f) \cap S |-> f[k]]

\* d[k] = v on a dict (a function), adding the key when it is new.
DictSet(d, k, v) == [x \in (DOMAIN d) \cup {k} |-> IF x = k THEN v ELSE d[x]]

Range(s) == {s[i] : i \in DOMAIN s}

(***************************************************************************)
(* Role: a set of names and a filter function (transforms.py 306-440).     *)
(* A field name of the Role algebra is a Python string, modelled as the    *)
(* tuple of its characters, because set.union / set.difference iterate     *)
(* their operand and a string iterates as its characters.                  *)
(***************************************************************************)
Role(function, fields) == [function |-> function, fields |-> fields]

wholelist(field_list) == Role("wholelist", field_list)

whitelist(field_list) == Role("whitelist", field_list)

blacklist(field_list) == Role("blacklist", field_list)

Role_wholelist(name, value, seq) == FALSE

Role_whitelist_keep_all_when_empty(name, value, seq) ==
    IF Cardinality(seq) > 0 THEN name \notin seq ELSE FALSE

Role_whitelist(name, value, seq) ==
    IF Cardinality(seq) > 0 THEN name \notin seq ELSE TRUE

Role_blacklist(name, value, seq) ==
    IF Cardinality(seq) > 0 THEN name \in seq ELSE FALSE

\* Role.__call__: TRUE when the field is to be skipped.
Role_call(self, name, value) ==
    CASE self.function = "wholelist" -> Role_wholelist(name, value, self.fields)
      [] self.function = "whitelist" -> Role_whitelist(name, value, self.fields)
      [] self.function = "blacklist" -> Role_blacklist(name, value, self.fields)

\* Role.__eq__
Role_eq_fields_only(self, other) == self.fields = other.fields

Role_eq(self, other) ==
    self.function = other.function /\ self.fields = other.fields

\* What iterating the right operand of + or - yields: the characters of a
\* string (each a one-character string), the elements of a list or tuple,
\* the names of a Role (Role.__iter__).
\* An operand is a record: kind "str" with the string in str, kind "list" with
\* the elements in elems, kind "Role" with the Role's names in elems.
Iterate(other) ==
    CASE other.kind = "str" -> {<<other.str[i]>> : i \in 1..Len(other.str)}
      [] other.kind = "list" -> other.elems
      [] other.kind = "Role" -> other.elems

\* Role.__add__ and Role.__sub__ return a record of the receiver as the call
\* leaves it (self) and the Role returned (result).
Role_add_in_place(self, other) ==
    LET fields == self.fields \cup Iterate(other)
    IN  [self |-> Role(self.function, fields),
         result |-> Role(self.function, fields)]

Role_add(self, other) ==
    LET fields == self.fields \cup Iterate(other)
    IN  [self |-> self, result |-> Role(self.function, fields)]

Role_sub(self, other) ==
    LET fields == self.fields \ Iterate(other)
    IN  [self |-> self, result |-> Role(self.function, fields)]

\* ---- the arguments the Role operations are called with ----
MaxRoleFields == 2

Chars == {"a", "b"}

\* Field names of one and of two characters.
Names == {<<c>> : c \in Chars} \cup {<<c, d>> : c \in Chars, d \in Chars}

NameSets == {S \in SUBSET Names : Cardinality(S) <= MaxRoleFields}

RoleKinds == {"wholelist", "whitelist", "blacklist"}

Roles == {Role(k, S) : k \in RoleKinds, S \in NameSets}

Operands ==
    {[kind |-> "str", str |-> n, elems |-> {}] : n \in Names}
        \cup {[kind |-> k, str |-> <<>>, elems |-> S] :
                 k \in {"list", "Role"}, S \in NameSets}

RoleCallOp ==
    /\ pc = "idle"
    /\ \E self \in Roles, name \in Names :
          /\ call' = [op |-> "Role.__call__", self |-> self, name |-> name]
          /\ ret' = [skip |-> Role_call(self, name, None)]
    /\ pc' = "done"

RoleAddOp ==
    /\ pc = "idle"
    /\ \E self \in Roles, other \in Operands :
          /\ call' = [op |-> "Role.__add__", self |-> self, other |-> other]
          /\ ret' = Role_add(self, other)
    /\ pc' = "done"

RoleSubOp ==
    /\ pc = "idle"
    /\ \E self \in Roles, other \in Operands :
          /\ call' = [op |-> "Role.__sub__", self |-> self, other |-> other]
          /\ ret' = Role_sub(self, other)
    /\ pc' = "done"

RoleEqOp ==
    /\ pc = "idle"
    /\ \E self \in Roles, other \in Roles :
          /\ call' = [op |-> "Role.__eq__", self |-> self, other |-> other]
          /\ ret' = [equal |-> Role_eq(self, other)]
    /\ pc' = "done"

(***************************************************************************)
(* sort_dict (transforms.py 259-278).  A dict is a sequence of <<key,       *)
(* value>> items in iteration order, based_on a sequence of keys.          *)
(***************************************************************************)
Keys(items) == {items[i][1] : i \in DOMAIN items}

\* list.index(x) for an x the list holds: the 0-based place of its first
\* occurrence.
ListIndex(list, x) ==
    (CHOOSE i \in DOMAIN list :
        list[i] = x /\ \A j \in DOMAIN list : list[j] = x => i <= j) - 1

\* The sort key of one item: based_on.index(el[0] if el[0] in based_on else -1).
\* The conditional is the ARGUMENT of index, so for a key that is not listed
\* the call is based_on.index(-1), which raises ValueError (no key is -1).
SortKey(el, based_on) ==
    IF el[1] \in Range(based_on)
    THEN [raised |-> "none", index |-> ListIndex(based_on, el[1])]
    ELSE [raised |-> "ValueError", index |-> -1]

\* sorted(): a stable sort, here by insertion from the left.
RECURSIVE InsertSorted(_, _, _)
InsertSorted(sorted, el, based_on) ==
    IF sorted = <<>> THEN <<el>>
    ELSE LET last == sorted[Len(sorted)]
         IN  IF SortKey(last, based_on).index <= SortKey(el, based_on).index
             THEN Append(sorted, el)
             ELSE Append(InsertSorted(SubSeq(sorted, 1, Len(sorted) - 1),
                                      el, based_on), last)

RECURSIVE StableSort(_, _)
StableSort(items, based_on) ==
    IF items = <<>> THEN <<>>
    ELSE InsertSorted(StableSort(SubSeq(items, 1, Len(items) - 1), based_on),
                      items[Len(items)], based_on)

sort_dict(dct, based_on) ==
    IF \E i \in DOMAIN dct : SortKey(dct[i], based_on).raised # "none"
    THEN [raised |-> "ValueError", items |-> <<>>]
    ELSE [raised |-> "none", items |-> StableSort(dct, based_on)]

\* ---- the arguments sort_dict is called with ----
MaxKeys == 3

SortKeys == {"a", "b", "c", "d"}

\* Sequences of distinct keys, at most MaxKeys long.
KeySeqs ==
    UNION {{q \in [1..n -> SortKeys] : \A i, j \in 1..n : q[i] = q[j] => i = j} :
              n \in 0..MaxKeys}

\* The value stored under a key.
ValueOf(k) == "v" \o k

ItemsOf(q) == [i \in DOMAIN q |-> <<q[i], ValueOf(q[i])>>]

SortDictOp ==
    /\ pc = "idle"
    /\ \E q \in KeySeqs, based_on \in KeySeqs :
          /\ call' = [op |-> "sort_dict", dct |-> ItemsOf(q), based_on |-> based_on]
          /\ ret' = sort_dict(ItemsOf(q), based_on)
    /\ pc' = "done"

(***************************************************************************)
(* export_loop (transforms.py 166-256).                                    *)
(*                                                                         *)
(* A schema cls is a record: fields and serializables (sequences of field  *)
(* descriptors, in declaration order), roles (cls._options.roles, a dict   *)
(* from role name to Role) and fields_order (cls._options.fields_order, a  *)
(* sequence, empty when there is none).  A field descriptor is a record:   *)
(* name, serialized_name (None when it has none), is_compound, and         *)
(* export_level, the level field.get_export_level(context) returns.        *)
(***************************************************************************)
DROP == 0

DEFAULT == 1

NOT_NONE == 2

NONEMPTY == 3

\* atoms(): the declared fields, then the serializables, each with the value
\* instance_or_dict.get(field_name, Undefined).
DictGet(d, k, default) == IF k \in DOMAIN d THEN d[k] ELSE default

atoms(cls, instance_or_dict) ==
    LET all_fields == cls.fields \o cls.serializables
    IN  [i \in DOMAIN all_fields |->
            [field |-> all_fields[i],
             value |-> DictGet(instance_or_dict, all_fields[i].name, Undefined)]]

\* field.export(value, format, context) through ExportConverter.__call__
\* (transforms.py 467-472): the shaped form of a native value.  "nE" is an
\* empty value (shaped "", or an empty list or dict for a compound field),
\* "nN" a value whose shaped form is None.
ExportConverter(field, value) ==
    CASE value = "n1" -> "p1"
      [] value = "n2" -> "p2"
      [] value = "nE" -> "pE"
      [] value = "nN" -> None

\* len(value) == 0 of a shaped value.
IsEmpty(value) == value = "pE"

\* data[key] = value on an insertion-ordered dict.
OrderedSet(items, key, value) ==
    IF key \in Keys(items)
    THEN [i \in DOMAIN items |->
             IF items[i][1] = key THEN <<key, value>> ELSE items[i]]
    ELSE Append(items, <<key, value>>)

\* Lines 210-218: the role's predicate, or none with the error raised.
ResolveRole_ignore_requested(cls, context) ==
    [raised |-> "none",
     gottago |-> DictGet(cls.roles, "default", wholelist({}))]

ResolveRole(cls, context) ==
    IF context.role \in DOMAIN cls.roles
    THEN [raised |-> "none", gottago |-> cls.roles[context.role]]
    ELSE IF context.role # None /\ context.raise_error_on_role
    THEN [raised |-> "ValueError: no role", gottago |-> wholelist({})]
    ELSE [raised |-> "none",
          gottago |-> DictGet(cls.roles, "default", wholelist({}))]

\* Lines 238-246: whether the shaped value is left out at this level.
Filtered_drop_falsy(field, value, level) ==
    \/ value = Undefined /\ level <= DEFAULT
    \/ value = None /\ level <= NOT_NONE
    \/ value \notin {Undefined, None} /\ IsEmpty(value) /\ level <= NOT_NONE

Filtered(field, value, level) ==
    \/ value = Undefined /\ level <= DEFAULT
    \/ value = None /\ level <= NOT_NONE
    \/ /\ value \notin {Undefined, None}
       /\ field.is_compound /\ IsEmpty(value)
       /\ level <= NONEMPTY

\* Lines 223-251: one iteration of the loop on the atom at, from the state st
\* (data: the output so far, converted: the names given to the converter).
ExportStep(st, at, gottago, context) ==
    LET field == at.field
        serialized_name ==
            IF field.serialized_name # None THEN field.serialized_name
            ELSE field.name
        level == field.export_level
        value == IF at.value \notin {None, Undefined}
                 THEN ExportConverter(field, at.value) ELSE at.value
        st2 == IF at.value \notin {None, Undefined}
               THEN [st EXCEPT !.converted = Append(@, field.name)] ELSE st
    IN  IF Role_call(gottago, field.name, at.value) THEN st
        ELSE IF level = DROP THEN st
        ELSE IF Filtered(field, value, level) THEN st2
        ELSE [st2 EXCEPT !.data =
                 OrderedSet(@, serialized_name,
                            IF value = Undefined THEN None ELSE value)]

RECURSIVE ExportFields(_, _, _, _)
ExportFields(st, ats, gottago, context) ==
    IF ats = <<>> THEN st
    ELSE ExportFields(ExportStep(st, Head(ats), gottago, context),
                      Tail(ats), gottago, context)

\* export_loop returns a record: raised (the exception, "none" when it
\* returns), output (the mapping returned), and what the call did on the way:
\* gottago (the predicate resolved), converted (the fields passed to the field
\* converter) and data (the mapping when the loop ends, line 251).
export_loop(cls, instance_or_dict, context) ==
    LET rr == ResolveRole(cls, context)
        st == ExportFields([data |-> <<>>, converted |-> <<>>],
                           atoms(cls, instance_or_dict), rr.gottago, context)
        sorted == IF cls.fields_order # <<>>
                  THEN sort_dict(st.data, cls.fields_order)
                  ELSE [raised |-> "none", items |-> st.data]
    IN  IF rr.raised # "none"
        THEN [raised |-> rr.raised, gottago |-> rr.gottago,
              converted |-> <<>>, data |-> <<>>, output |-> <<>>]
        ELSE [raised |-> sorted.raised, gottago |-> rr.gottago,
              converted |-> st.converted, data |-> st.data,
              output |-> sorted.items]

\* ---- the arguments export_loop is called with ----
Levels == {DROP, DEFAULT, NOT_NONE, NONEMPTY}

NativeValues == {Undefined, None, "n1", "nE", "nN"}

\* Field a takes every descriptor; field b and the serializable s take fewer.
FieldsA ==
    {[name |-> "a", serialized_name |-> sn, is_compound |-> c, export_level |-> l] :
        sn \in {None, "sa"}, c \in BOOLEAN, l \in Levels}

FieldsB ==
    {[name |-> "b", serialized_name |-> sn, is_compound |-> FALSE,
      export_level |-> l] : sn \in {None, "sb"}, l \in {DROP, DEFAULT}}

FieldS ==
    [name |-> "s", serialized_name |-> None, is_compound |-> FALSE,
     export_level |-> DEFAULT]

FieldSeqs == {<<a>> : a \in FieldsA} \cup {<<a, b>> : a \in FieldsA, b \in FieldsB}

ExportRoles ==
    {wholelist({}), whitelist({}), whitelist({"a"}), whitelist({"b", "s"}),
     blacklist({}), blacklist({"a"})}

\* cls._options.roles: no role, "public", "default", or both.
RoleMaps ==
    {EmptyDict}
        \cup {[n \in {"public"} |-> r] : r \in ExportRoles}
        \cup {[n \in {"default"} |-> r] : r \in ExportRoles}
        \cup {[n \in {"public", "default"} |->
                 IF n = "public" THEN r ELSE blacklist({"b"})] : r \in ExportRoles}

Reverse(q) == [i \in DOMAIN q |-> q[Len(q) + 1 - i]]

OutputKey(field) ==
    IF field.serialized_name # None THEN field.serialized_name ELSE field.name

\* cls._options.fields_order: none, or the declared names in reverse order, or
\* the output keys in reverse order.
FieldsOrder(all_fields, how) ==
    CASE how = "none" -> <<>>
      [] how = "names" -> Reverse([i \in DOMAIN all_fields |-> all_fields[i].name])
      [] how = "keys" -> Reverse([i \in DOMAIN all_fields |-> OutputKey(all_fields[i])])

ExportSchemas ==
    {[fields |-> fs, serializables |-> ss, roles |-> rs,
      fields_order |-> FieldsOrder(fs \o ss, how)] :
        fs \in FieldSeqs, ss \in {<<>>, <<FieldS>>}, rs \in RoleMaps,
        how \in {"none", "names", "keys"}}

ExportContexts ==
    {[role |-> r, raise_error_on_role |-> e] :
        r \in {None, "public"}, e \in BOOLEAN}

\* The instance: a dict with a value for a (no entry when Undefined), for b
\* and for s.
Instances ==
    {[n \in (IF va = Undefined THEN {} ELSE {"a"}) \cup {"b", "s"} |->
         CASE n = "a" -> va [] n = "b" -> "n2" [] n = "s" -> "n1"] :
        va \in NativeValues}

ExportLoopOp ==
    /\ pc = "idle"
    /\ \E cls \in ExportSchemas, instance \in Instances, context \in ExportContexts :
          /\ call' = [op |-> "export_loop", cls |-> cls, instance |-> instance,
                      context |-> context]
          /\ ret' = export_loop(cls, instance, context)
    /\ pc' = "done"

(***************************************************************************)
(* import_loop (transforms.py 34-163).                                     *)
(*                                                                         *)
(* A schema cls is a record: fields (the field descriptors in declaration  *)
(* order) and serializables (the names of cls._serializables).  A field    *)
(* descriptor is a record: name, serialized_name (None when it has none),  *)
(* deserialize_from (the list listify gives), default (Undefined when it   *)
(* has none), is_compound, and required (whether check_required raises on  *)
(* a missing value in this call).  instance_or_dict is a record: kind      *)
(* ("None", "dict" or "other") and items (the dict).                       *)
(***************************************************************************)
\* field.convert(value, context): the native form of a raw value.  The raw
\* value "bad" is one the field cannot convert, "badD" a mapping for a nested
\* model whose own import fails with a DataError carrying partial data "pd".
Native(value) == "n:" \o value

Convert(field, value) ==
    CASE value = "bad" ->
            [raised |-> IF field.is_compound THEN "CompoundError" ELSE "FieldError",
             value |-> Undefined, partial_data |-> None]
      [] value = "badD" ->
            [raised |-> IF field.is_compound THEN "DataError" ELSE "FieldError",
             value |-> Undefined,
             partial_data |-> IF field.is_compound THEN "pd" ELSE None]
      [] OTHER -> [raised |-> "none", value |-> Native(value), partial_data |-> None]

\* ImportConverter.__call__ (transforms.py 494-498).
FieldConverter(field, value) ==
    IF field.required /\ value \in {None, Undefined}
    THEN [raised |-> "FieldError", value |-> Undefined, partial_data |-> None]
    ELSE IF value \in {None, Undefined}
    THEN [raised |-> "none", value |-> value, partial_data |-> None]
    ELSE Convert(field, value)

\* context.mapping.get(field_name, []), listified.
MappingGet(mapping, field_name) == DictGet(mapping, field_name, <<>>)

\* Lines 99-107: all acceptable field input names.
AllFields_without_aliases(cls, context) ==
    LET names == {cls.fields[i].name : i \in DOMAIN cls.fields}
    IN  ((names \cup cls.serializables) \ (names \cap cls.serializables))
            \cup ({cls.fields[i].serialized_name : i \in DOMAIN cls.fields} \ {None})

AllFields(cls, context) ==
    LET names == {cls.fields[i].name : i \in DOMAIN cls.fields}
    IN  ((names \cup cls.serializables) \ (names \cap cls.serializables))
            \cup ({cls.fields[i].serialized_name : i \in DOMAIN cls.fields} \ {None})
            \cup UNION {Range(cls.fields[i].deserialize_from) : i \in DOMAIN cls.fields}
            \cup UNION {Range(MappingGet(context.mapping, cls.fields[i].name)) :
                           i \in DOMAIN cls.fields}

\* Lines 109-114: the errors the rogue keys start with.
RogueErrors(cls, instance_or_dict, context) ==
    IF instance_or_dict.kind # "None" /\ context.strict
    THEN [k \in (DOMAIN instance_or_dict.items) \ AllFields(cls, context) |->
             "Rogue field"]
    ELSE EmptyDict

\* Lines 122-127: the keys tried for a field, in order.
TrialKeys(field, context) ==
    field.deserialize_from
        \o MappingGet(context.mapping, field.name)
        \o (IF field.serialized_name # None THEN <<field.serialized_name>> ELSE <<>>)
        \o <<field.name>>

\* Lines 128-130: every key is tried and each one found overwrites the value.
RECURSIVE ResolveValue_first_match(_, _)
ResolveValue_first_match(trial_keys, items) ==
    IF trial_keys = <<>> THEN Undefined
    ELSE IF Head(trial_keys) # "" /\ Head(trial_keys) \in DOMAIN items
    THEN items[Head(trial_keys)]
    ELSE ResolveValue_first_match(Tail(trial_keys), items)

RECURSIVE ResolveValue(_, _)
ResolveValue(trial_keys, items) ==
    IF trial_keys = <<>> THEN Undefined
    ELSE LET key == trial_keys[Len(trial_keys)]
         IN  IF key # "" /\ key \in DOMAIN items THEN items[key]
             ELSE ResolveValue(SubSeq(trial_keys, 1, Len(trial_keys) - 1), items)

\* Lines 135-138: the value of a field the input gave none for.
FillValue_init_first(value, field, context) ==
    LET v1 == IF value = Undefined /\ context.init_values THEN None ELSE value
    IN  IF v1 = Undefined /\ context.apply_defaults THEN field.default ELSE v1

FillValue(value, field, context) ==
    LET v1 == IF value = Undefined /\ context.apply_defaults
              THEN field.default ELSE value
    IN  IF v1 = Undefined /\ context.init_values THEN None ELSE v1

\* Lines 119, 124-125: the key a field's error is recorded under.
ErrorKey_field_name(field) == field.name

ErrorKey(field) ==
    IF field.serialized_name # None THEN field.serialized_name ELSE field.name

ImportField_without_trusted_skip(st, field, instance_or_dict, context) ==
    LET got_data == instance_or_dict.kind # "None"
        found == IF got_data
                 THEN ResolveValue(TrialKeys(field, context), instance_or_dict.items)
                 ELSE Undefined
        value == FillValue(found, field, context)
        r == FieldConverter(field, value)
        st2 == [st EXCEPT !.passed = Append(@, [name |-> field.name, value |-> value])]
    IN  IF ~got_data
        THEN [st EXCEPT !.data = DictSet(@, field.name, value)]
        ELSE IF r.raised # "none"
        THEN [st2 EXCEPT
                 !.errors = DictSet(@, ErrorKey(field), r.raised),
                 !.data = IF r.raised = "DataError"
                          THEN DictSet(@, field.name, r.partial_data) ELSE @]
        ELSE [st2 EXCEPT !.data = DictSet(@, field.name, r.value)]

\* Lines 116-157: one iteration of the loop on field, from the state st (data,
\* errors, and passed: what the field converter was called with).
ImportField(st, field, instance_or_dict, context) ==
    LET got_data == instance_or_dict.kind # "None"
        found == IF got_data
                 THEN ResolveValue(TrialKeys(field, context), instance_or_dict.items)
                 ELSE Undefined
        value == FillValue(found, field, context)
        r == FieldConverter(field, value)
        st2 == [st EXCEPT !.passed = Append(@, [name |-> field.name, value |-> value])]
    IN  IF found = Undefined /\ field.name \in DOMAIN st.data THEN st
        ELSE IF ~got_data
        THEN [st EXCEPT !.data = DictSet(@, field.name, value)]
        ELSE IF r.raised # "none"
        THEN [st2 EXCEPT
                 !.errors = DictSet(@, ErrorKey(field), r.raised),
                 !.data = IF r.raised = "DataError"
                          THEN DictSet(@, field.name, r.partial_data) ELSE @]
        ELSE [st2 EXCEPT !.data = DictSet(@, field.name, r.value)]

RECURSIVE ImportFields(_, _, _, _)
ImportFields(st, fields, instance_or_dict, context) ==
    IF fields = <<>> THEN st
    ELSE ImportFields(ImportField(st, Head(fields), instance_or_dict, context),
                      Tail(fields), instance_or_dict, context)

\* Line 160: the snapshot of the data that is not Undefined.
PartialData_unfiltered(data) == data

PartialData(data) == Restrict(data, {k \in DOMAIN data : data[k] # Undefined})

MakeContext_from_own_options(context, kwargs) ==
    [initialized |-> TRUE, mapping |-> kwargs.mapping,
     strict |-> kwargs.strict, init_values |-> kwargs.init_values,
     apply_defaults |-> kwargs.apply_defaults]

\* Lines 77-93: the Context of the call: the one passed in when it is
\* initialised, else one made of the call's keyword options.
MakeContext(context, kwargs) ==
    IF context.initialized THEN context
    ELSE [initialized |-> TRUE, mapping |-> kwargs.mapping,
          strict |-> kwargs.strict, init_values |-> kwargs.init_values,
          apply_defaults |-> kwargs.apply_defaults]

\* import_loop returns a record: raised (the exception, "none" when it
\* returns), data (the mapping returned), errors and partial_data (of the
\* DataError), passed (the calls of the field converter, in order) and
\* trusted_data (the caller's mapping as the call leaves it).
import_loop(cls, instance_or_dict, trusted_data, kwargs, context0) ==
    LET context == MakeContext(context0, kwargs)
        st == ImportFields([data |-> trusted_data,
                            errors |-> RogueErrors(cls, instance_or_dict, context),
                            passed |-> <<>>],
                           cls.fields, instance_or_dict, context)
    IN  IF instance_or_dict.kind = "other"
        THEN [raised |-> "ConversionError", data |-> EmptyDict, errors |-> EmptyDict,
              partial_data |-> EmptyDict, passed |-> <<>>,
              trusted_data |-> trusted_data]
        ELSE IF DOMAIN st.errors # {}
        THEN [raised |-> "DataError", data |-> EmptyDict, errors |-> st.errors,
              partial_data |-> PartialData(st.data), passed |-> st.passed,
              trusted_data |-> trusted_data]
        ELSE [raised |-> "none", data |-> st.data, errors |-> EmptyDict,
              partial_data |-> EmptyDict, passed |-> st.passed,
              trusted_data |-> trusted_data]

\* ---- the arguments import_loop is called with ----
MaxInputKeys == 3

ImportField_(name, sn, dfrom, default, compound, required) ==
    [name |-> name, serialized_name |-> sn, deserialize_from |-> dfrom,
     default |-> default, is_compound |-> compound, required |-> required]

PlainB == ImportField_("b", None, <<>>, Undefined, FALSE, FALSE)

NoContext == [initialized |-> FALSE]

Kwargs(mapping, strict, init_values, apply_defaults) ==
    [mapping |-> mapping, strict |-> strict, init_values |-> init_values,
     apply_defaults |-> apply_defaults]

\* The raw value an input holds under key k when it is a value that converts.
RawOf(k) == "r_" \o k

\* Calls about the input keys: field a with every combination of aliases, an
\* input of at most MaxInputKeys keys among the names, the aliases, the
\* serializable s and the unknown key u, each key with a raw value of its own.
AliasKeys == {"a", "sa", "x", "y", "m", "s", "u"}

AliasSchemas ==
    {[fields |-> <<ImportField_("a", sn, dfrom, Undefined, FALSE, FALSE)>> \o rest,
      serializables |-> ss] :
        sn \in {None, "sa"},
        dfrom \in {<<>>, <<"x">>, <<"x", "y">>, <<"y", "x">>},
        rest \in {<<>>, <<PlainB>>},
        ss \in {{}, {"s"}}}

AliasCalls ==
    {[cls |-> cls,
      instance_or_dict |-> [kind |-> "dict", items |-> [k \in ks |-> RawOf(k)]],
      trusted_data |-> EmptyDict,
      kwargs |-> Kwargs(mapping, strict, FALSE, FALSE)] :
        cls \in AliasSchemas,
        ks \in {S \in SUBSET AliasKeys : Cardinality(S) <= MaxInputKeys},
        mapping \in {EmptyDict, [n \in {"a"} |-> <<"m">>]},
        strict \in BOOLEAN}

\* Calls about failures, defaults and trusted data: fields a and b, an input
\* that is no mapping, or None, or a dict that may hold a value for a, for b
\* and under the unknown key u.
FailureSchemas ==
    {[fields |-> <<ImportField_("a", sna, <<>>, default, compound, reqa),
                   ImportField_("b", snb, <<>>, Undefined, FALSE, reqb)>>,
      serializables |-> {}] :
        sna \in {None, "sa"}, default \in {Undefined, "dflt"},
        compound \in BOOLEAN, reqa \in BOOLEAN,
        snb \in {None, "sb"}, reqb \in BOOLEAN}

FailureInputs ==
    {[kind |-> "None", items |-> EmptyDict], [kind |-> "other", items |-> EmptyDict]}
        \cup {[kind |-> "dict",
               items |-> [k \in (IF va = Undefined THEN {} ELSE {"a"})
                                   \cup (IF vb = Undefined THEN {} ELSE {"b"})
                                   \cup (IF u THEN {"u"} ELSE {}) |->
                            CASE k = "a" -> va [] k = "b" -> vb [] k = "u" -> "r_u"]] :
                 va \in {Undefined, "r_a", None, "bad", "badD"},
                 vb \in {Undefined, "r_b", "bad"},
                 u \in BOOLEAN}

TrustedData ==
    {EmptyDict, [n \in {"a"} |-> "t_a"], [n \in {"a", "b"} |-> "t_" \o n]}

FailureCalls ==
    {[cls |-> cls, instance_or_dict |-> inst, trusted_data |-> td,
      kwargs |-> Kwargs(EmptyDict, strict, init_values, apply_defaults)] :
        cls \in FailureSchemas, inst \in FailureInputs, td \in TrustedData,
        strict \in BOOLEAN, init_values \in BOOLEAN, apply_defaults \in BOOLEAN}

ImportLoopOp ==
    /\ pc = "idle"
    /\ \E c \in AliasCalls \cup FailureCalls :
          /\ call' = [op |-> "import_loop", cls |-> c.cls,
                      instance_or_dict |-> c.instance_or_dict,
                      trusted_data |-> c.trusted_data, kwargs |-> c.kwargs]
          /\ ret' = import_loop(c.cls, c.instance_or_dict, c.trusted_data,
                                c.kwargs, NoContext)
    /\ pc' = "done"

NoCall == [op |-> "none"]

Return ==
    /\ pc = "done"
    /\ pc' = "idle"
    /\ call' = NoCall
    /\ ret' = NoCall

Init ==
    /\ pc = "idle"
    /\ call = NoCall
    /\ ret = NoCall

NextRole == RoleCallOp \/ RoleAddOp \/ RoleSubOp \/ RoleEqOp \/ Return

SpecRole == Init /\ [][NextRole]_vars

NextImport == ImportLoopOp \/ Return

SpecImport == Init /\ [][NextImport]_vars

NextExport == ExportLoopOp \/ SortDictOp \/ Return

SpecExport == Init /\ [][NextExport]_vars

(***************************************************************************)
(* Properties of import_loop.                                              *)
(***************************************************************************)
ImportDone == pc = "done" /\ call.op = "import_loop"

\* The call was given a mapping.
GotDict == call.instance_or_dict.kind = "dict"

InputItems == call.instance_or_dict.items

DeclaredFields == Range(call.cls.fields)

DeclaredNames == [i \in DOMAIN call.cls.fields |-> call.cls.fields[i].name]

\* The keys a field accepts its value under.
AcceptableKeys(field) ==
    Range(field.deserialize_from)
        \cup Range(DictGet(call.kwargs.mapping, field.name, <<>>))
        \cup ({field.serialized_name} \ {None})
        \cup {field.name}

HasInput(field) == GotDict /\ AcceptableKeys(field) \cap DOMAIN InputItems # {}

IsTrusted(field) == field.name \in DOMAIN call.trusted_data

PassedNames == [i \in DOMAIN ret.passed |-> ret.passed[i].name]

WasPassed(field) == field.name \in Range(PassedNames)

\* The value the field converter was called with for a field that was passed.
PassedValue(field) ==
    (CHOOSE e \in Range(ret.passed) : e.name = field.name).value

\* What the field converter did for a field that was passed.
Outcome(field) == FieldConverter(field, PassedValue(field))

Failed(field) == WasPassed(field) /\ Outcome(field).raised # "none"

\* A field with no input value whose name is in trusted_data is kept as it is.
KeptTrusted(field) == ~HasInput(field) /\ IsTrusted(field)

NotKeptTrusted(field) == ~KeptTrusted(field)

NamesOf(fields) == [i \in DOMAIN fields |-> fields[i].name]

\* The error mapping has the entry of every field that failed, under its
\* serialized name, and none for another field.
ErrorsOfFailedFields ==
    /\ (\E f \in DeclaredFields : Failed(f)) => ret.raised = "DataError"
    /\ \A f \in DeclaredFields :
          IF Failed(f)
          THEN /\ OutputKey(f) \in DOMAIN ret.errors
               /\ ret.errors[OutputKey(f)] = Outcome(f).raised
          ELSE OutputKey(f) \notin DOMAIN ret.errors

\* C1, as claimed: given a mapping, import_loop passes EVERY declared field to
\* the field converter, whatever failed before, and a failing call raises one
\* DataError whose errors hold exactly the failed fields, under their
\* serialized names.
C1_EveryFieldPassed ==
    (ImportDone /\ GotDict) =>
        /\ PassedNames = DeclaredNames
        /\ ErrorsOfFailedFields

\* C1, amended: given a mapping, import_loop passes to the field converter, in
\* declaration order and whatever failed before, every declared field except
\* those with no input value whose name is in trusted_data; a failing call
\* raises one DataError whose errors hold exactly the failed fields, under
\* their serialized names.
C1_NoShortCircuit ==
    (ImportDone /\ GotDict) =>
        /\ PassedNames = NamesOf(SelectSeq(call.cls.fields, NotKeptTrusted))
        /\ ErrorsOfFailedFields

\* Both fields failed, the first under its serialized name: the second was
\* still converted and both are reported.
C1_Witness ==
    /\ ImportDone /\ GotDict
    /\ ret.raised = "DataError"
    /\ DOMAIN ret.errors = {"sa", "b"}
    /\ PassedNames = <<"a", "b">>

\* The partial data of a failed call, field by field; plain says what it
\* holds for a field that failed with an error carrying no partial data.
PartialDataHolds(plain(_)) ==
    LET pd == ret.partial_data
    IN  /\ \A k \in DOMAIN pd : pd[k] # Undefined
        /\ DOMAIN pd \subseteq Range(DeclaredNames) \cup DOMAIN call.trusted_data
        /\ \A f \in DeclaredFields :
              IF KeptTrusted(f)
              THEN f.name \in DOMAIN pd /\ pd[f.name] = call.trusted_data[f.name]
              ELSE IF Failed(f) /\ Outcome(f).raised = "DataError"
              THEN f.name \in DOMAIN pd /\ pd[f.name] = Outcome(f).partial_data
              ELSE IF Failed(f) THEN plain(f)
              ELSE IF Outcome(f).value # Undefined
              THEN f.name \in DOMAIN pd /\ pd[f.name] = Outcome(f).value
              ELSE f.name \notin DOMAIN pd

NoEntry(f) == f.name \notin DOMAIN ret.partial_data

TrustedEntryOrNone(f) ==
    IF IsTrusted(f)
    THEN /\ f.name \in DOMAIN ret.partial_data
         /\ ret.partial_data[f.name] = call.trusted_data[f.name]
    ELSE NoEntry(f)

\* C2, as claimed: the partial data of the DataError holds the converted value
\* of every field that converted to a value other than Undefined, the nested
\* partial data of a field that failed with a DataError, no Undefined, and NO
\* entry for a field that failed with a plain error.
C2_NoEntryForFailedField ==
    (ImportDone /\ ret.raised = "DataError") => PartialDataHolds(NoEntry)

\* C2, amended: as claimed, except that a field that failed with a plain error
\* has no entry only when trusted_data has none for it: the trusted value of
\* a field stays in the partial data when its conversion fails (and when the
\* input has no value for it).
C2_PartialDataSnapshot ==
    (ImportDone /\ ret.raised = "DataError") => PartialDataHolds(TrustedEntryOrNone)

\* Importing {a: ok, b: invalid}: partial data {a: converted}, errors only b.
C2_Witness ==
    /\ ImportDone
    /\ call.trusted_data = EmptyDict
    /\ DOMAIN InputItems = {"a", "b"}
    /\ ret.raised = "DataError"
    /\ DOMAIN ret.errors = {"b"}
    /\ ret.errors["b"] = "FieldError"
    /\ DOMAIN ret.partial_data = {"a"}
    /\ ret.partial_data["a"] = Native("r_a")

\* The keys of the input that no field accepts and that name no serializable.
RogueKeys ==
    DOMAIN InputItems
        \ (UNION {AcceptableKeys(f) : f \in DeclaredFields} \cup call.cls.serializables)

FailedKeys == {OutputKey(f) : f \in {g \in DeclaredFields : Failed(g)}}

\* C3: given a mapping and strict, a key of the input is recorded as "Rogue
\* field" iff it is no declared field name, serializable name, serialized
\* name, deserialize_from alias or context alias; the fields with an input
\* value are still converted and the call fails with a DataError whose errors
\* are exactly the rogue keys and the failed fields.  Without strict no key is
\* rogue, and the call returns unless a field fails.
C3_StrictRogueFields ==
    (ImportDone /\ GotDict) =>
        IF call.kwargs.strict
        THEN /\ \A k \in DOMAIN InputItems :
                   (k \in DOMAIN ret.errors /\ ret.errors[k] = "Rogue field")
                       <=> k \in RogueKeys
             /\ DOMAIN ret.errors = RogueKeys \cup FailedKeys
             /\ RogueKeys # {} => ret.raised = "DataError"
             /\ \A f \in DeclaredFields : HasInput(f) => WasPassed(f)
        ELSE /\ DOMAIN ret.errors = FailedKeys
             /\ FailedKeys = {} => ret.raised = "none"

\* Strict, an unknown key beside a recognised one: the field is converted and
\* the errors hold the unknown key alone.
C3_Witness ==
    /\ ImportDone /\ GotDict
    /\ call.kwargs.strict
    /\ {"u", "x"} \subseteq DOMAIN InputItems
    /\ ret.raised = "DataError"
    /\ DOMAIN ret.errors = {"u"}
    /\ ret.errors["u"] = "Rogue field"
    /\ \E f \in DeclaredFields : "x" \in Range(f.deserialize_from) /\ WasPassed(f)

\* The keys of a field in the order of the claim: deserialize_from as listed,
\* the context aliases, the serialized name, the field name.
ScanOrder(field) ==
    field.deserialize_from
        \o DictGet(call.kwargs.mapping, field.name, <<>>)
        \o (IF field.serialized_name = None THEN <<>> ELSE <<field.serialized_name>>)
        \o <<field.name>>

PresentAt(field) ==
    {i \in DOMAIN ScanOrder(field) : ScanOrder(field)[i] \in DOMAIN InputItems}

Latest(S) == CHOOSE i \in S : \A j \in S : j <= i

\* C4: the value import_loop uses for a field is the one the input holds under
\* the LAST key present in the order deserialize_from, context aliases,
\* serialized name, field name; so the field name wins whenever it is present.
C4_LastMatchWins ==
    (ImportDone /\ GotDict) =>
        \A f \in DeclaredFields :
            PresentAt(f) # {} =>
                /\ WasPassed(f)
                /\ PassedValue(f) = InputItems[ScanOrder(f)[Latest(PresentAt(f))]]
                /\ f.name \in DOMAIN InputItems => PassedValue(f) = InputItems[f.name]

\* Three keys of a field are present, and the value used is the last one's,
\* not the first's.
C4_Witness ==
    /\ ImportDone /\ GotDict
    /\ \E f \in DeclaredFields :
          /\ f.deserialize_from = <<"y", "x">>
          /\ DOMAIN InputItems = {"x", "y", "sa"}
          /\ f.serialized_name = "sa"
          /\ PassedValue(f) = "r_sa"

\* A declared field the input has no value for.
Missing(field) == call.instance_or_dict.kind # "other" /\ ~HasInput(field)

\* The value such a field gets from the options.
FilledValue(field) ==
    IF call.kwargs.apply_defaults /\ field.default # Undefined THEN field.default
    ELSE IF call.kwargs.init_values THEN None
    ELSE Undefined

\* C5, as claimed: a field with no input value gets its default under
\* apply_defaults, None under init_values when no default applied, and with
\* neither option the mapping returned has NO entry for it.
C5_SkippedFieldHasNoEntry ==
    ImportDone =>
        \A f \in DeclaredFields :
            Missing(f) =>
                IF ~call.kwargs.apply_defaults /\ ~call.kwargs.init_values
                THEN ret.raised = "none" => f.name \notin DOMAIN ret.data
                ELSE IF GotDict
                THEN WasPassed(f) /\ PassedValue(f) = FilledValue(f)
                ELSE ret.data[f.name] = FilledValue(f)

\* C5, amended: a field with no input value and no entry in trusted_data gets
\* its default under apply_defaults, None under init_values when no default
\* applied, and otherwise stays Undefined; it is not skipped: given a mapping
\* the value is passed to the field converter and a call that returns has an
\* entry for the field holding the converter's result (Undefined itself when
\* neither option applies), given no data the value is stored as it is.  A
\* field with no input value whose name is in trusted_data keeps the trusted
\* value and is not converted, whatever the options.
C5_MissingFieldValue ==
    ImportDone =>
        \A f \in DeclaredFields :
            Missing(f) =>
                IF IsTrusted(f)
                THEN /\ ~WasPassed(f)
                     /\ ret.raised = "none" =>
                            ret.data[f.name] = call.trusted_data[f.name]
                ELSE IF GotDict
                THEN /\ WasPassed(f)
                     /\ PassedValue(f) = FilledValue(f)
                     /\ ret.raised = "none" =>
                            /\ f.name \in DOMAIN ret.data
                            /\ ret.data[f.name] = Outcome(f).value
                            /\ FilledValue(f) \in {None, Undefined} =>
                                   ret.data[f.name] = FilledValue(f)
                ELSE /\ f.name \in DOMAIN ret.data
                     /\ ret.data[f.name] = FilledValue(f)

\* Neither option, no trusted data, a mapping without field a: the call
\* returns a mapping whose entry for a is Undefined.
C5_Witness ==
    /\ ImportDone /\ GotDict
    /\ ~call.kwargs.apply_defaults /\ ~call.kwargs.init_values
    /\ call.trusted_data = EmptyDict
    /\ DOMAIN InputItems = {"b"}
    /\ ret.raised = "none"
    /\ "a" \in DOMAIN ret.data
    /\ ret.data["a"] = Undefined

(***************************************************************************)
(* Properties of export_loop and sort_dict.                                *)
(***************************************************************************)
ExportDone == pc = "done" /\ call.op = "export_loop"

ExportAtoms == Range(atoms(call.cls, call.instance))

RoleRequested == call.context.role # None

RoleDefined == call.context.role \in DOMAIN call.cls.roles

\* The predicate the claim has export_loop filter with.
ClaimedRole ==
    IF RoleRequested /\ RoleDefined THEN call.cls.roles[call.context.role]
    ELSE IF "default" \in DOMAIN call.cls.roles THEN call.cls.roles["default"]
    ELSE wholelist({})

Value(items, key) == (CHOOSE i \in DOMAIN items : items[i][1] = key)

\* C6: a requested role the schema defines filters the fields; a requested
\* role it does not define makes export_loop fail before any output when
\* raise_error_on_role is set; otherwise, and when no role is requested, the
\* "default" role filters when defined and else every field is allowed.  A
\* field the predicate skips (by its declared name) is not converted and not
\* in the output, and a field it keeps whose value and level let it through
\* is in the mapping the loop builds.
C6_RoleResolution ==
    ExportDone =>
        IF RoleRequested /\ ~RoleDefined /\ call.context.raise_error_on_role
        THEN /\ ret.raised = "ValueError: no role"
             /\ ret.converted = <<>> /\ ret.data = <<>> /\ ret.output = <<>>
        ELSE /\ ret.raised # "ValueError: no role"
             /\ ret.gottago = ClaimedRole
             /\ \A at \in ExportAtoms :
                   IF Role_call(ClaimedRole, at.field.name, at.value)
                   THEN /\ at.field.name \notin Range(ret.converted)
                        /\ OutputKey(at.field) \notin Keys(ret.data)
                        /\ OutputKey(at.field) \notin Keys(ret.output)
                   ELSE (at.value \in {"n1", "n2"} /\ at.field.export_level # DROP)
                            => OutputKey(at.field) \in Keys(ret.data)

\* The requested role is defined beside a default role; it skips field a and
\* keeps b, which the default role would have skipped.
C6_Witness ==
    /\ ExportDone
    /\ call.context.role = "public"
    /\ DOMAIN call.cls.roles = {"public", "default"}
    /\ call.cls.roles["public"] = blacklist({"a"})
    /\ call.cls.roles["default"] = blacklist({"b"})
    /\ "a" \in DOMAIN call.instance /\ call.instance["a"] = "n1"
    /\ ret.raised = "none"
    /\ \E i, j \in DOMAIN call.cls.fields :
          /\ call.cls.fields[i].name = "a"
          /\ call.cls.fields[i].export_level # DROP
          /\ OutputKey(call.cls.fields[i]) \notin Keys(ret.output)
          /\ call.cls.fields[j].name = "b"
          /\ OutputKey(call.cls.fields[j]) \in Keys(ret.output)

\* What export_loop inserts for an atom the role keeps: nothing, or the
\* shaped value.
Shaped(at) ==
    IF at.value \in {None, Undefined} THEN at.value
    ELSE ExportConverter(at.field, at.value)

Omitted(at) ==
    \/ at.field.export_level = DROP
    \/ Shaped(at) = Undefined /\ at.field.export_level <= DEFAULT
    \/ Shaped(at) = None /\ at.field.export_level <= NOT_NONE
    \/ /\ at.field.is_compound
       /\ Shaped(at) \notin {None, Undefined} /\ IsEmpty(Shaped(at))
       /\ at.field.export_level <= NONEMPTY

\* C7: of the fields the role keeps, one at level DROP is left out; the field
\* converter is called only at another level and for a value that is neither
\* None nor Undefined; the result is left out iff it is Undefined at a level
\* <= DEFAULT, None at a level <= NOT_NONE, or empty in a compound field at a
\* level <= NONEMPTY; else it is inserted under the serialized key, Undefined
\* as None.  So the mapping never holds Undefined, a non-compound empty value
\* at NOT_NONE is in it, and the mapping returned holds the same items.
C7_ExportLevelFiltering ==
    (ExportDone /\ ret.raised # "ValueError: no role") =>
        /\ \A at \in ExportAtoms :
              ~Role_call(ret.gottago, at.field.name, at.value) =>
                  /\ at.field.name \in Range(ret.converted)
                         <=> (at.field.export_level # DROP
                                 /\ at.value \notin {None, Undefined})
                  /\ OutputKey(at.field) \in Keys(ret.data) <=> ~Omitted(at)
                  /\ ~Omitted(at) =>
                         <<OutputKey(at.field),
                           IF Shaped(at) = Undefined THEN None ELSE Shaped(at)>>
                             \in Range(ret.data)
        /\ \A i \in DOMAIN ret.data : ret.data[i][2] # Undefined
        /\ ret.raised = "none" =>
              Len(ret.output) = Len(ret.data) /\ Range(ret.output) = Range(ret.data)

\* Field a, not compound, at NOT_NONE with an empty value: it is in the
\* output.
C7_Witness ==
    /\ ExportDone
    /\ call.cls.fields[1].export_level = NOT_NONE
    /\ ~call.cls.fields[1].is_compound
    /\ "a" \in DOMAIN call.instance /\ call.instance["a"] = "nE"
    /\ ret.raised = "none"
    /\ <<"a", "pE">> \in Range(ret.output)

IsListed(el) == el[1] \in Range(call.based_on)

IsUnlisted(el) == ~IsListed(el)

\* The items under the keys of based_on, in the order based_on lists them.
RECURSIVE InOrderOf(_, _)
InOrderOf(based_on, items) ==
    IF based_on = <<>> THEN <<>>
    ELSE (IF Head(based_on) \in Keys(items)
          THEN <<items[Value(items, Head(based_on))]>> ELSE <<>>)
             \o InOrderOf(Tail(based_on), items)

RoleCalled == pc = "done" /\ call.op = "Role.__call__"

\* C9, as claimed: a wholelist never excludes a name; a whitelist excludes a
\* name unless it is in the set, and NOTHING when the set is empty; a
\* blacklist excludes a name iff it is in the set.
C9_EmptyWhitelistKeepsAll ==
    RoleCalled =>
        ret.skip =
            CASE call.self.function = "wholelist" -> FALSE
              [] call.self.function = "whitelist" ->
                    call.self.fields # {} /\ call.name \notin call.self.fields
              [] call.self.function = "blacklist" -> call.name \in call.self.fields

\* C9, amended: a wholelist never excludes a name; a whitelist excludes a name
\* unless it is in the set, so a whitelist with an empty set excludes EVERY
\* name; a blacklist excludes a name iff it is in the set, so nothing when it
\* is empty.
C9_RolePredicates ==
    RoleCalled =>
        ret.skip =
            CASE call.self.function = "wholelist" -> FALSE
              [] call.self.function = "whitelist" -> call.name \notin call.self.fields
              [] call.self.function = "blacklist" -> call.name \in call.self.fields

\* A whitelist with no names is asked about a name, and skips it.
C9_Witness ==
    /\ RoleCalled
    /\ call.self = whitelist({})
    /\ ret.skip

RoleAdded == pc = "done" /\ call.op = "Role.__add__"

RoleSubtracted == pc = "done" /\ call.op = "Role.__sub__"

RoleCompared == pc = "done" /\ call.op = "Role.__eq__"

\* What + and - leave alone: the receiver, and the kind in the result.
SameKindNewRole ==
    /\ ret.self = call.self
    /\ ret.result.function = call.self.function

EqualIffSameKindAndNames ==
    RoleCompared =>
        (ret.equal <=> (call.self.function = call.other.function
                           /\ call.self.fields = call.other.fields))

\* C10, as claimed: for a field name f of ANY length R + f is a new Role of
\* R's kind with the names of R and f, R - f one with the names of R without
\* f, R is not changed, and two Roles are equal iff they have the same kind
\* and the same names.
C10_AddsNameOfAnyLength ==
    /\ (RoleAdded /\ call.other.kind = "str") =>
          /\ SameKindNewRole
          /\ ret.result.fields = call.self.fields \cup {call.other.str}
    /\ (RoleSubtracted /\ call.other.kind = "str") =>
          /\ SameKindNewRole
          /\ ret.result.fields = call.self.fields \ {call.other.str}
    /\ EqualIffSameKindAndNames

\* The names a right operand stands for: the elements of a list, tuple or
\* Role, and of a string its characters, each as a name of its own.
OperandNames ==
    IF call.other.kind = "str"
    THEN {<<c>> : c \in Range(call.other.str)}
    ELSE call.other.elems

\* C10, amended: R + f (R - f) is a new Role of R's kind with the names of R
\* and f (without f) for a field name f of ONE character; the operand is
\* iterated as a collection of names, so a list, tuple or Role adds (removes)
\* its elements and a longer string adds (removes) each of its characters as
\* a name, not the string.  R is not changed, and two Roles are equal iff they
\* have the same kind and the same names.
C10_RoleAlgebra ==
    /\ RoleAdded =>
          /\ SameKindNewRole
          /\ ret.result.fields = call.self.fields \cup OperandNames
          /\ (call.other.kind = "str" /\ Len(call.other.str) = 1) =>
                Role_eq(ret.result,
                        Role(call.self.function,
                             call.self.fields \cup {call.other.str}))
    /\ RoleSubtracted =>
          /\ SameKindNewRole
          /\ ret.result.fields = call.self.fields \ OperandNames
          /\ (call.other.kind = "str" /\ Len(call.other.str) = 1) =>
                Role_eq(ret.result,
                        Role(call.self.function,
                             call.self.fields \ {call.other.str}))
    /\ EqualIffSameKindAndNames

\* whitelist(a) + "ab" is whitelist(a, b): the name "ab" is not added.
C10_Witness ==
    /\ RoleAdded
    /\ call.self = whitelist({<<"a">>})
    /\ call.other.kind = "str" /\ call.other.str = <<"a", "b">>
    /\ ret.result = whitelist({<<"a">>, <<"b">>})
    /\ ret.self = whitelist({<<"a">>})

(***************************************************************************)
(* PolyModelType.find_model.  A model class is a name; the data it is      *)
(* asked about shows only in what each class's _claim_polymorphic hook     *)
(* answers: "no hook" when the class's own __dict__ has no hook, else      *)
(* "claims" or "declines".                                                 *)
(***************************************************************************)
ModelClasses == {"A", "B", "C"}

\* The registry of descendants: B is declared as a subclass of A.
Subclasses(m) == IF m = "A" THEN <<"B">> ELSE <<>>

RECURSIVE Chain(_)
\* itertools.chain.from_iterable(([m] + m._subclasses for m in candidates))
Chain(candidates) ==
    IF candidates = <<>> THEN <<>>
    ELSE <<Head(candidates)>> \o Subclasses(Head(candidates))
             \o Chain(Tail(candidates))

Candidates(self) ==
    IF self.allow_subclasses THEN Chain(self.model_classes)
    ELSE self.model_classes

RECURSIVE ScanCandidates(_, _, _)
\* The loop over the candidates: st holds fallback and matching_classes.
ScanCandidates(st, candidates, hooks) ==
    IF candidates = <<>> THEN st
    ELSE LET cls == Head(candidates)
             has_hook == hooks[cls] # "no hook"
             match == has_hook /\ hooks[cls] = "claims"
             fallback == IF ~has_hook /\ st.fallback = None THEN cls
                         ELSE st.fallback
             matching == IF match THEN Append(st.matching_classes, cls)
                         ELSE st.matching_classes
         IN  ScanCandidates([fallback |-> fallback, matching_classes |-> matching],
                            Tail(candidates), hooks)

\* self.claim_function is a record: given is FALSE for None, and else answer
\* is what the function returns for the data, a class or None.
find_model(self, hooks) ==
    IF self.claim_function.given
    THEN LET chosen_class == self.claim_function.answer
         IN  [raised |-> IF chosen_class # None THEN "none" ELSE "no match",
              chosen_class |-> chosen_class,
              fallback |-> None, matching_classes |-> <<>>]
    ELSE LET st == ScanCandidates([fallback |-> None, matching_classes |-> <<>>],
                                  Candidates(self), hooks)
         IN  IF st.matching_classes = <<>> /\ st.fallback # None
             THEN [raised |-> "none", chosen_class |-> st.fallback,
                   fallback |-> st.fallback,
                   matching_classes |-> st.matching_classes]
             ELSE IF Len(st.matching_classes) = 1
             THEN [raised |-> "none", chosen_class |-> st.matching_classes[1],
                   fallback |-> st.fallback,
                   matching_classes |-> st.matching_classes]
             ELSE [raised |-> "ambiguous", chosen_class |-> None,
                   fallback |-> st.fallback,
                   matching_classes |-> st.matching_classes]

MaxModelClasses == 2

\* model_classes: up to MaxModelClasses different classes, in any order.
ModelClassSeqs ==
    {q \in UNION {[1..n -> ModelClasses] : n \in 1..MaxModelClasses} :
        \A i, j \in DOMAIN q : i # j => q[i] # q[j]}

Hooks == [ModelClasses -> {"no hook", "claims", "declines"}]

ClaimFunctions ==
    {[given |-> FALSE, answer |-> None]}
        \cup {[given |-> TRUE, answer |-> a] : a \in ModelClasses \cup {None}}

PolyModelTypes ==
    [model_classes : ModelClassSeqs, allow_subclasses : BOOLEAN,
     claim_function : ClaimFunctions]

FindModelOp ==
    /\ pc = "idle"
    /\ \E self \in PolyModelTypes, hooks \in Hooks :
          /\ call' = [op |-> "find_model", self |-> self, hooks |-> hooks]
          /\ ret' = find_model(self, hooks)
    /\ pc' = "done"

NextPoly == FindModelOp \/ Return

SpecPoly == Init /\ [][NextPoly]_vars

(***************************************************************************)
(* Properties of find_model.                                               *)
(***************************************************************************)
FindModelDone == pc = "done" /\ call.op = "find_model"

\* The candidate classes of the call, as a set.
CandidateSet == Range(Candidates(call.self))

Matching == {c \in CandidateSet : call.hooks[c] = "claims"}

Hookless == {c \in CandidateSet : call.hooks[c] = "no hook"}

\* The earliest place of a class in the enumeration.
FirstAt(c) ==
    CHOOSE i \in DOMAIN Candidates(call.self) :
        /\ Candidates(call.self)[i] = c
        /\ \A j \in 1..(i - 1) : Candidates(call.self)[j] # c

EarliestHookless ==
    IF Hookless = {} THEN None
    ELSE CHOOSE c \in Hookless : \A d \in Hookless : FirstAt(c) <= FirstAt(d)

\* C11: without a claim function the fallback is the earliest enumerated
\* candidate with no hook; no matching candidate and a fallback gives the
\* fallback; exactly one matching candidate gives that candidate; no match
\* and no fallback, or more than one matching candidate, fails.  With a claim
\* function the choice is the function's answer.
C11_FindModel ==
    FindModelDone =>
        IF call.self.claim_function.given
        THEN ret.chosen_class = call.self.claim_function.answer
        ELSE /\ ret.fallback = EarliestHookless
             /\ (Matching = {} /\ Hookless # {}) =>
                    (ret.raised = "none" /\ ret.chosen_class = EarliestHookless)
             /\ Cardinality(Matching) = 1 =>
                    (ret.raised = "none" /\ ret.chosen_class \in Matching)
             /\ ((Matching = {} /\ Hookless = {}) \/ Cardinality(Matching) > 1) =>
                    ret.raised # "none"

(***************************************************************************)
(* flatten_to_dict and expand (transforms.py 545-637).  A value of the     *)
(* nested structure is a record [t, s, items]: a scalar holds its text in  *)
(* s; a dict holds its items as <<key, value>> pairs in iteration order; a *)
(* list holds its elements as pairs too, under the text of their index.  A *)
(* key is a Python string, modelled as the tuple of its characters, so     *)
(* that joining with "." and splitting at the first "." are computed.      *)
(***************************************************************************)
EMPTY_LIST == "[]"

EMPTY_DICT == "{}"

Scalar(s) == [t |-> "scalar", s |-> s, items |-> <<>>]

DictOf(items) == [t |-> "dict", s |-> "", items |-> items]

ListOf(items) == [t |-> "list", s |-> "", items |-> items]

ItemGet(items, key) == items[CHOOSE i \in DOMAIN items : items[i][1] = key][2]

RECURSIVE DictUpdate(_, _)
\* dict.update(other)
DictUpdate(items, other) ==
    IF other = <<>> THEN items
    ELSE DictUpdate(OrderedSet(items, Head(other)[1], Head(other)[2]), Tail(other))

JoinKey_without_separator(prefix, key) == prefix \o key

\* ".".join(map(unicode, (prefix, key)))
JoinKey(prefix, key) == prefix \o <<".">> \o key

RECURSIVE flatten_to_dict(_, _, _)
RECURSIVE FlattenItems(_, _, _, _)
\* The loop of flatten_to_dict over the iterator, flat_dict so far in flat.
FlattenItems(flat, items, prefix, ignore_none) ==
    IF items = <<>> THEN flat
    ELSE LET key == IF prefix # <<>> THEN JoinKey(prefix, Head(items)[1])
                    ELSE Head(items)[1]
             value0 == Head(items)[2]
             value == IF value0 = ListOf(<<>>) THEN Scalar(EMPTY_LIST)
                      ELSE IF value0 = DictOf(<<>>) THEN Scalar(EMPTY_DICT)
                      ELSE value0
             flat1 == IF value.t \in {"dict", "list"}
                      THEN DictUpdate(flat, flatten_to_dict(value, key, TRUE))
                      ELSE IF value # Scalar(None)
                      THEN OrderedSet(flat, key, value)
                      ELSE IF ~ignore_none
                      THEN OrderedSet(flat, key, value)
                      ELSE flat
         IN  FlattenItems(flat1, Tail(items), prefix, ignore_none)

\* prefix is <<>> for None (and for the empty string: both are falsy).
flatten_to_dict(instance_or_dict, prefix, ignore_none) ==
    FlattenItems(<<>>, instance_or_dict.items, prefix, ignore_none)

HasDot(key) == \E i \in DOMAIN key : key[i] = "."

FirstDot(key) ==
    CHOOSE i \in DOMAIN key : key[i] = "." /\ \A j \in 1..(i - 1) : key[j] # "."

\* key.split(".", 1)
SplitKey(key) ==
    [key |-> SubSeq(key, 1, FirstDot(key) - 1),
     remaining |-> SubSeq(key, FirstDot(key) + 1, Len(key))]

RECURSIVE expand(_, _)
RECURSIVE ExpandItems(_, _, _)
\* One turn of expand's loop.  st.expanded_dict is the dict the call
\* returns and st.context the dict the split branch writes into: the same
\* object when own (no expanded_data, or an empty one), else the caller's
\* expanded_data, changed in place.
ExpandItem(st, key_, value_, own) ==
    IF st.raised # "none" THEN st
    ELSE IF ~HasDot(key_)
    THEN LET value == IF value_ = Scalar(EMPTY_DICT) THEN DictOf(<<>>)
                      ELSE IF value_ = Scalar(EMPTY_LIST) THEN ListOf(<<>>)
                      ELSE value_
             written == OrderedSet(st.expanded_dict, key_, value)
         IN  IF value_ \in {Scalar(EMPTY_DICT), Scalar(EMPTY_LIST)}
                  /\ key_ \in Keys(st.expanded_dict)
             THEN st
             ELSE [st EXCEPT !.expanded_dict = written,
                             !.context = IF own THEN written ELSE @]
    ELSE LET key == SplitKey(key_).key
             remaining == SplitKey(key_).remaining
             context == IF key \in Keys(st.context) THEN st.context
                        ELSE OrderedSet(st.context, key, DictOf(<<>>))
             found == ItemGet(context, key)
             current_context == IF found = ListOf(<<>>) THEN DictOf(<<>>) ELSE found
         IN  IF current_context.t # "dict"
             THEN [st EXCEPT !.raised = "AttributeError"]
             ELSE LET r == expand(<< <<remaining, value_>> >>, current_context.items)
                      updated == OrderedSet(context, key,
                                     DictOf(DictUpdate(r.expanded_data, r.expanded_dict)))
                  IN  IF r.raised # "none" THEN [st EXCEPT !.raised = r.raised]
                      ELSE [st EXCEPT !.context = updated,
                                      !.expanded_dict = IF own THEN updated ELSE @]

ExpandItems(st, data, own) ==
    IF data = <<>> THEN st
    ELSE ExpandItems(ExpandItem(st, Head(data)[1], Head(data)[2], own),
                     Tail(data), own)

\* expanded_data is <<>> for None (and for an empty dict: both are falsy).
\* The result holds the dict returned and expanded_data as the call leaves it.
expand(data, expanded_data) ==
    LET own == expanded_data = <<>>
        st == ExpandItems([raised |-> "none", expanded_dict |-> <<>>,
                           context |-> expanded_data], data, own)
    IN  [raised |-> st.raised,
         expanded_dict |-> st.expanded_dict,
         expanded_data |-> IF own THEN expanded_data ELSE st.context]

(***************************************************************************)
(* The structures flatten_to_dict is called with, and the flat mappings    *)
(* expand is called with.                                                  *)
(***************************************************************************)
MaxListLen == 2

Digits == <<"0", "1", "2", "3", "4", "5">>

\* unicode(index) of a list index.
IndexText(i) == <<Digits[i + 1]>>

RECURSIVE ItemsInOrder(_, _)
\* The items of a dict that holds f[k] under each key k of f, in the order
\* of keyseq.
ItemsInOrder(keyseq, f) ==
    IF keyseq = <<>> THEN <<>>
    ELSE (IF Head(keyseq) \in DOMAIN f
          THEN << <<Head(keyseq), f[Head(keyseq)]>> >> ELSE <<>>)
             \o ItemsInOrder(Tail(keyseq), f)

DictsOver(keyseq, values) ==
    {DictOf(ItemsInOrder(keyseq, f)) :
        f \in UNION {[S -> values] : S \in SUBSET Range(keyseq)}}

ListsOver(values) ==
    UNION {{ListOf([i \in 1..n |-> <<IndexText(i - 1), q[i]>>]) :
               q \in [1..n -> values]} : n \in 0..MaxListLen}

TopKeys == << <<"a">>, <<"b">> >>

InnerKeys == << <<"c">>, <<"c", ".", "d">> >>

Scalars == {Scalar("1"), Scalar("2"), Scalar(None), Scalar(EMPTY_LIST)}

Leaves == Scalars \cup {ListOf(<<>>), DictOf(<<>>)}

\* Two levels of containers, of every kind, over every kind of leaf.
WideStructures ==
    DictsOver(TopKeys, Leaves \cup DictsOver(InnerKeys, Leaves) \cup ListsOver(Leaves))

DeepLeaves == {Scalar("1"), ListOf(<<>>), DictOf(<<>>)}

DeepKeys == << <<"c">>, <<"d">> >>

\* Three levels of dicts under one key.
DeepStructures ==
    DictsOver(<< <<"a">> >>,
        DictsOver(DeepKeys, DeepLeaves \cup DictsOver(DeepKeys, DeepLeaves)))

Structures == WideStructures \cup DeepStructures

RoundTripOp ==
    /\ pc = "idle"
    /\ \E X \in Structures :
          /\ call' = [op |-> "expand(flatten_to_dict)", X |-> X]
          /\ ret' = LET flat == flatten_to_dict(X, <<>>, TRUE)
                        r == expand(flat, <<>>)
                    IN  [flat |-> flat, raised |-> r.raised,
                         expanded |-> DictOf(r.expanded_dict)]
    /\ pc' = "done"

MaxFlatKeys == 3

FlatPaths ==
    {<<"a">>, <<"a", ".", "b">>, <<"a", ".", "b", ".", "c">>,
     <<"x">>, <<"x", ".", "a">>, <<"x", ".", "a", ".", "b">>}

FlatValues == {Scalar("1"), Scalar(EMPTY_LIST), Scalar(EMPTY_DICT)}

\* A flat mapping: up to MaxFlatKeys different keys, in every iteration
\* order.
FlatMappings ==
    {q \in UNION {[1..n -> FlatPaths \X FlatValues] : n \in 1..MaxFlatKeys} :
        \A i, j \in DOMAIN q : i # j => q[i][1] # q[j][1]}

ExpandOp ==
    /\ pc = "idle"
    /\ \E data \in FlatMappings :
          /\ call' = [op |-> "expand", data |-> data]
          /\ ret' = LET r == expand(data, <<>>)
                    IN  [raised |-> r.raised, expanded |-> DictOf(r.expanded_dict)]
    /\ pc' = "done"

NextFlat == RoundTripOp \/ ExpandOp \/ Return

SpecFlat == Init /\ [][NextFlat]_vars

(***************************************************************************)
(* Properties of flatten_to_dict and expand.                               *)
(***************************************************************************)
RoundTripDone == pc = "done" /\ call.op = "expand(flatten_to_dict)"

RECURSIVE SameValue(_, _)
\* Python's == of two structures: dicts are equal whatever their order.
SameValue(x, y) ==
    /\ x.t = y.t
    /\ x.s = y.s
    /\ Len(x.items) = Len(y.items)
    /\ IF x.t = "dict"
       THEN /\ Keys(x.items) = Keys(y.items)
            /\ \A k \in Keys(x.items) :
                  SameValue(ItemGet(x.items, k), ItemGet(y.items, k))
       ELSE \A i \in DOMAIN x.items : SameValue(x.items[i][2], y.items[i][2])

RECURSIVE PlainStructure(_)
\* Keys are non-empty and hold no ".", and no scalar is null or the text of
\* a reserved token.
PlainStructure(x) ==
    CASE x.t = "scalar" -> x.s \notin {None, EMPTY_LIST, EMPTY_DICT}
      [] x.t = "dict" ->
            \A i \in DOMAIN x.items :
                /\ x.items[i][1] # <<>> /\ ~HasDot(x.items[i][1])
                /\ PlainStructure(x.items[i][2])
      [] x.t = "list" ->
            \A i \in DOMAIN x.items : PlainStructure(x.items[i][2])

RECURSIVE NoFilledList(_)
NoFilledList(x) ==
    /\ x.t = "list" => x.items = <<>>
    /\ \A i \in DOMAIN x.items : NoFilledList(x.items[i][2])

RECURSIVE ListsAsDicts(_)
\* The structure with every non-empty list replaced by the mapping from
\* the text of each index to the element.
ListsAsDicts(x) ==
    IF x.t = "scalar" \/ x.items = <<>> THEN x
    ELSE DictOf([i \in DOMAIN x.items |->
                    <<x.items[i][1], ListsAsDicts(x.items[i][2])>>])

\* C12, as claimed: expand(flatten_to_dict(X)) == X for ANY structure X
\* of mappings, lists and scalars.
C12_RoundTripOfAnyStructure ==
    RoundTripDone => (ret.raised = "none" /\ SameValue(ret.expanded, call.X))

\* C12, amended: expand(flatten_to_dict(X)) == X for a mapping X nested of
\* mappings with non-empty keys that hold no ".", scalars that are neither
\* null nor the text of a reserved token, and empty lists and empty dicts,
\* which the reserved tokens carry through the flat form.  A non-empty list
\* of such values does not come back: expand yields in its place the
\* mapping from the text of each index to the element.
C12_RoundTrip ==
    (RoundTripDone /\ PlainStructure(call.X)) =>
        /\ ret.raised = "none"
        /\ SameValue(ret.expanded, ListsAsDicts(call.X))
        /\ NoFilledList(call.X) => SameValue(ret.expanded, call.X)
        /\ \A i \in DOMAIN ret.flat : ret.flat[i][2].t = "scalar"

\* X = {a: {c: {c: 1, d: []}, d: {}}}: an empty list and an empty dict at
\* different keys, carried by the tokens and restored.
C12_Witness ==
    /\ RoundTripDone
    /\ call.X = DictOf(<< << <<"a">>,
                   DictOf(<< << <<"c">>,
                                DictOf(<< << <<"c">>, Scalar("1") >>,
                                          << <<"d">>, ListOf(<<>>) >> >>) >>,
                             << <<"d">>, DictOf(<<>>) >> >>) >> >>)
    /\ << <<"a", ".", "c", ".", "d">>, Scalar(EMPTY_LIST) >> \in Range(ret.flat)
    /\ << <<"a", ".", "d">>, Scalar(EMPTY_DICT) >> \in Range(ret.flat)
    /\ ret.raised = "none"
    /\ ret.expanded = call.X

ExpandDone == pc = "done" /\ call.op = "expand"

NoValue == Scalar("<missing>")

RECURSIVE PathGet(_, _)
\* The value a nested structure holds at a dotted path, or NoValue.
PathGet(x, path) ==
    IF x.t # "dict" THEN NoValue
    ELSE IF ~HasDot(path)
    THEN IF path \in Keys(x.items) THEN ItemGet(x.items, path) ELSE NoValue
    ELSE IF SplitKey(path).key \in Keys(x.items)
    THEN PathGet(ItemGet(x.items, SplitKey(path).key), SplitKey(path).remaining)
    ELSE NoValue

\* path is path K followed by "." and more.
Deeper(path, K) ==
    /\ Len(path) > Len(K) + 1
    /\ SubSeq(path, 1, Len(K) + 1) = K \o <<".">>

Tokens == {Scalar(EMPTY_LIST), Scalar(EMPTY_DICT)}

\* No key that carries an ordinary value has a deeper path beside it.
OnlyTokensCollide ==
    \A i, j \in DOMAIN call.data :
        Deeper(call.data[j][1], call.data[i][1]) => call.data[i][2] \in Tokens

Reorderings(data) ==
    {[i \in DOMAIN data |-> data[p[i]]] :
        p \in {f \in [DOMAIN data -> DOMAIN data] :
                  \A i, j \in DOMAIN data : i # j => f[i] # f[j]}}

\* C18: when a flat mapping holds a reserved token at a path K and another
\* key that is a deeper path K.rest, expand yields at K a nested mapping that
\* holds the deeper path, not an empty list or dict, at whatever depth K
\* lies, and the result is the same for every iteration order of the flat
\* mapping.
C18_CollisionPromotes ==
    (ExpandDone /\ OnlyTokensCollide) =>
        /\ ret.raised = "none"
        /\ \A i, j \in DOMAIN call.data :
              (call.data[i][2] \in Tokens
                  /\ Deeper(call.data[j][1], call.data[i][1])) =>
                    /\ PathGet(ret.expanded, call.data[i][1]).t = "dict"
                    /\ PathGet(ret.expanded, call.data[j][1]) # NoValue
        /\ \A other \in Reorderings(call.data) :
              SameValue(DictOf(expand(other, <<>>).expanded_dict), ret.expanded)

(***************************************************************************)
(* ListType and DictType (types/compound.py 123-277).  Values are the      *)
(* [t, s, items] records of the flatten model; a list holds its elements   *)
(* as <<text of the index, element>> pairs.                                *)
(***************************************************************************)
MaxListSize == 3

\* The longest list or dict given to convert and export.
MaxElements == 3

\* min_size / max_size: given is FALSE for None.
NoSize == [given |-> FALSE, size |-> 0]

Size(n) == [given |-> TRUE, size |-> n]

\* The %d message of check_length, singular for a bound of 1.
LengthMessage(which, size) == [about |-> which, size |-> size, plural |-> size # 1]

check_length_ignoring_max(self, value) ==
    LET list_length == IF value.t = "list" THEN Len(value.items) ELSE 0
    IN  IF self.min_size.given /\ list_length < self.min_size.size
        THEN [raised |-> "ValidationError",
              message |-> LengthMessage("min_size", self.min_size.size)]
        ELSE [raised |-> "none", message |-> LengthMessage("none", 0)]

\* ListType.check_length (lines 187-202); value is a list or None.
check_length(self, value) ==
    LET list_length == IF value.t = "list" THEN Len(value.items) ELSE 0
    IN  IF self.min_size.given /\ list_length < self.min_size.size
        THEN [raised |-> "ValidationError",
              message |-> LengthMessage("min_size", self.min_size.size)]
        ELSE IF self.max_size.given /\ list_length > self.max_size.size
        THEN [raised |-> "ValidationError",
              message |-> LengthMessage("max_size", self.max_size.size)]
        ELSE [raised |-> "none", message |-> LengthMessage("none", 0)]

Sizes == {NoSize} \cup {Size(n) : n \in 0..MaxListSize}

\* A list of n elements.
ListOfLength(n) == ListOf([i \in 1..n |-> <<IndexText(i - 1), Scalar("1")>>])

LengthValues == {Scalar(None)} \cup {ListOfLength(n) : n \in 0..(MaxListSize + 1)}

CheckLengthOp ==
    /\ pc = "idle"
    /\ \E min_size \in Sizes, max_size \in Sizes, value \in LengthValues :
          /\ call' = [op |-> "check_length",
                      self |-> [min_size |-> min_size, max_size |-> max_size],
                      value |-> value]
          /\ ret' = check_length([min_size |-> min_size, max_size |-> max_size], value)
    /\ pc' = "done"

\* ---- convert ----
\* ImportConverter.__call__ (transforms.py 494-498) for the converter's
\* action: 'convert' gives the native form, 'validate' hands the value to
\* field.validate, which gives it back when it is valid.
ImportConverter_call(converter, field, value) ==
    IF converter = "import_converter" THEN FieldConverter(field, value)
    ELSE IF field.required /\ value \in {None, Undefined}
    THEN [raised |-> "FieldError", value |-> Undefined, partial_data |-> None]
    ELSE IF value \in {None, Undefined}
    THEN [raised |-> "none", value |-> value, partial_data |-> None]
    ELSE IF value \in {"bad", "badD"}
    THEN [raised |-> "FieldError", value |-> Undefined, partial_data |-> None]
    ELSE [raised |-> "none", value |-> "v:" \o value, partial_data |-> None]

\* sorted(value) of a mapping's keys.
CoerceKeyOrder == <<"1", "a", "b">>

RECURSIVE ValuesSortedByKey(_, _)
\* [value[k] for k in sorted(value)]
ValuesSortedByKey(keyseq, items) ==
    IF keyseq = <<>> THEN <<>>
    ELSE (IF <<Head(keyseq)>> \in Keys(items)
          THEN <<ItemGet(items, <<Head(keyseq)>>)>> ELSE <<>>)
             \o ValuesSortedByKey(Tail(keyseq), items)

\* ListType._coerce (lines 154-172): the sequence of elements, or the
\* error.  A dict is a mapping without __reversed__; "odict" is one with it.
ListType_coerce(value) ==
    CASE value.t = "list" ->
            [raised |-> "none",
             value |-> [i \in DOMAIN value.items |-> value.items[i][2]]]
      [] value.t = "dict" ->
            [raised |-> "none", value |-> ValuesSortedByKey(CoerceKeyOrder, value.items)]
      [] value.t = "odict" ->
            [raised |-> "none",
             value |-> [i \in DOMAIN value.items |-> value.items[i][2]]]
      [] OTHER -> [raised |-> "ConversionError", value |-> <<>>]

RECURSIVE ConvertElements(_, _, _, _, _)
\* The loop of ListType.convert from index on (0-based, as enumerate).
ConvertElements(st, value, index, self, context) ==
    IF index >= Len(value) THEN st
    ELSE LET item == value[index + 1]
             r == ImportConverter_call(context.field_converter, self.field, item.s)
             st1 == [st EXCEPT !.passed = Append(@, item)]
             st2 == IF r.raised = "none"
                    THEN [st1 EXCEPT !.data =
                             Append(@, <<IndexText(Len(@)), Scalar(r.value)>>)]
                    ELSE [st1 EXCEPT !.errors = OrderedSet(@, IndexText(index), r.raised)]
         IN  ConvertElements(st2, value, index + 1, self, context)

ConvertElements_stop_at_error(st, value, index, self, context) ==
    IF index >= Len(value) THEN st
    ELSE LET item == value[index + 1]
             r == ImportConverter_call(context.field_converter, self.field, item.s)
             st1 == [st EXCEPT !.passed = Append(@, item)]
         IN  IF r.raised = "none"
             THEN ConvertElements(
                      [st1 EXCEPT !.data =
                          Append(@, <<IndexText(Len(@)), Scalar(r.value)>>)],
                      value, index + 1, self, context)
             ELSE [st1 EXCEPT !.errors = OrderedSet(@, IndexText(index), r.raised)]

\* The loop of ListType.convert (lines 178-182).
ConvertLoop(st, value, index, self, context) ==
    ConvertElements(st, value, index, self, context)

\* ListType.convert (lines 174-185).  passed lists the items handed to the
\* converter; data is what the loop built, returned when nothing is raised.
ListType_convert(self, value_, context) ==
    LET c == ListType_coerce(value_)
        st == ConvertLoop([data |-> <<>>, errors |-> <<>>, passed |-> <<>>],
                          c.value, 0, self, context)
    IN  IF c.raised # "none"
        THEN [raised |-> c.raised, data |-> <<>>, errors |-> <<>>, passed |-> <<>>]
        ELSE [raised |-> IF st.errors # <<>> THEN "CompoundError" ELSE "none",
              data |-> st.data, errors |-> st.errors, passed |-> st.passed]

CoerceKey(k) == IF k = <<"i1">> THEN <<"1">> ELSE k

RECURSIVE ConvertItems(_, _, _, _)
\* The loop of DictType.convert (lines 250-254).
ConvertItems(st, items, self, context) ==
    IF items = <<>> THEN st
    ELSE LET k == Head(items)[1]
             v == Head(items)[2]
             r == ImportConverter_call(context.field_converter, self.field, v.s)
             st1 == [st EXCEPT !.passed = Append(@, v)]
             st2 == IF r.raised = "none"
                    THEN [st1 EXCEPT !.data = OrderedSet(@, CoerceKey(k), Scalar(r.value))]
                    ELSE [st1 EXCEPT !.errors = OrderedSet(@, k, r.raised)]
         IN  ConvertItems(st2, Tail(items), self, context)

\* DictType.convert (lines 244-257).
DictType_convert(self, value, context) ==
    IF value.t \notin {"dict", "odict"}
    THEN [raised |-> "ConversionError", data |-> <<>>, errors |-> <<>>, passed |-> <<>>]
    ELSE LET st == ConvertItems([data |-> <<>>, errors |-> <<>>, passed |-> <<>>],
                                value.items, self, context)
         IN  [raised |-> IF st.errors # <<>> THEN "CompoundError" ELSE "none",
              data |-> st.data, errors |-> st.errors, passed |-> st.passed]

(***************************************************************************)
(* export of the compound types, and the export converters.                *)
(***************************************************************************)
\* The two export formats.
NATIVE == "NATIVE"

PRIMITIVE == "PRIMITIVE"

\* `not format`.
Not(format) == IF format = NATIVE THEN PRIMITIVE ELSE NATIVE

\* ExportConverter.__init__; exceptions is the set of type names.
ExportConverter_init(format, exceptions) ==
    [primary |-> format, secondary |-> Not(format), exceptions |-> exceptions]

to_native_converter == ExportConverter_init(NATIVE, {})

to_dict_converter == ExportConverter_init(NATIVE, {"ModelType"})

to_primitive_converter == ExportConverter_init(PRIMITIVE, {})

\* The format ExportConverter.__call__ exports a field with.
FormatOf(converter, field) ==
    IF converter.exceptions # {} /\ field.typeclass \in converter.exceptions
    THEN converter.secondary
    ELSE converter.primary

\* MultiType.__init__ sets is_compound; a scalar type leaves it false.
IsCompound(field) == field.typeclass # "BaseType"

\* A field: its type, the level get_export_level(context) answers, and for
\* a ListType the level of its own element field.
ExportField(typeclass, export_level, inner_level) ==
    [typeclass |-> typeclass, export_level |-> export_level,
     inner_level |-> inner_level]

\* The element field of a field of ListType: a scalar type.
InnerOf(field) == ExportField("BaseType", field.inner_level, DEFAULT)

\* A model instance with its field values.
ModelOf(items) == [t |-> "model", s |-> "", items |-> items]

\* The export of a scalar type: the value in the given format.
BaseType_export(value, format) ==
    IF value.s = None THEN value ELSE Scalar(format \o ":" \o value.s)

\* Model.export: the exported fields, as a model instance when the format
\* is NATIVE and as a dict otherwise; each field goes through the
\* converter of the context.
Model_export(model_instance, format, context) ==
    [t |-> IF format = NATIVE THEN "model" ELSE "dict",
     s |-> "",
     items |-> [i \in DOMAIN model_instance.items |->
                   <<model_instance.items[i][1],
                     BaseType_export(model_instance.items[i][2],
                                     context.field_converter.primary)>>]]

\* data.append(shaped) with the index as key.
Append_(data, shaped) == Append(data, <<IndexText(Len(data)), shaped>>)

RECURSIVE FieldExport(_, _, _, _)
RECURSIVE ExportElements(_, _, _, _, _, _)

\* ListType.export / DictType.export: the loop.  st is [raised, data,
\* formats], formats being the format each element was exported with; an
\* exception of the element's export leaves the loop.
ExportElements(st, items, i, self, format, context) ==
    IF i > Len(items) \/ st.raised # "none" THEN st
    ELSE LET r == FieldExport(self.field, items[i][2], format, context)
             shaped == r.shaped
             level == self.field.export_level
             skip == IF shaped = Scalar(None)
                     THEN level <= NOT_NONE
                     ELSE /\ IsCompound(self.field)
                          /\ Len(shaped.items) = 0
                          /\ level <= NONEMPTY
             data == IF skip THEN st.data
                     ELSE IF self.typeclass = "ListType"
                     THEN Append_(st.data, shaped)
                     ELSE OrderedSet(st.data, items[i][1], shaped)
         IN  IF r.raised # "none"
             THEN [raised |-> r.raised, data |-> st.data,
                   formats |-> Append(st.formats, format)]
             ELSE ExportElements([raised |-> "none", data |-> data,
                                  formats |-> Append(st.formats, format)],
                                 items, i + 1, self, format, context)

\* ListType.export and DictType.export.
MultiType_export(self, instance, format, context) ==
    IF self.field.export_level = DROP
    THEN [raised |-> "none", data |-> <<>>, formats |-> <<>>]
    ELSE IF instance.t = "scalar"
    THEN [raised |-> "TypeError", data |-> <<>>, formats |-> <<>>]
    ELSE ExportElements([raised |-> "none", data |-> <<>>, formats |-> <<>>],
                        instance.items, 1, self, format, context)

ListType_export(self, list_instance, format, context) ==
    MultiType_export(self, list_instance, format, context)

DictType_export(self, dict_instance, format, context) ==
    MultiType_export(self, dict_instance, format, context)

\* field.export(value, format, context) by the type of the field.
FieldExport(field, value, format, context) ==
    CASE field.typeclass = "BaseType" ->
            [raised |-> "none", shaped |-> BaseType_export(value, format)]
      [] field.typeclass = "ModelType" ->
            IF value.t # "model"
            THEN [raised |-> "AttributeError", shaped |-> Scalar(None)]
            ELSE [raised |-> "none", shaped |-> Model_export(value, format, context)]
      [] field.typeclass = "ListType" ->
            LET r == ListType_export([typeclass |-> "ListType", field |-> InnerOf(field)],
                                     value, format, context)
            IN  [raised |-> r.raised, shaped |-> ListOf(r.data)]

\* ExportConverter.__call__.
ExportConverter_call(converter, field, value, context) ==
    FieldExport(field, value, FormatOf(converter, field), context)

\* ---- the arguments of export ----
ExportConverters == {to_native_converter, to_dict_converter, to_primitive_converter}

InnerExportFields ==
    {ExportField(typeclass, level, DEFAULT) :
        typeclass \in {"BaseType", "ModelType", "ListType"}, level \in Levels}

\* The native values an element of the given type can hold: null is one of
\* them, because the import converter passes null through.
NativeElements(typeclass) ==
    {Scalar(None)} \cup
    CASE typeclass = "BaseType" -> {Scalar("v1"), Scalar("v2")}
      [] typeclass = "ModelType" ->
            {ModelOf(<<>>), ModelOf(<< <<<<"f">>, Scalar("v1")>> >>)}
      [] typeclass = "ListType" ->
            {ListOf(<<>>), ListOf(<< <<<<"0">>, Scalar("v1")>> >>)}

NativeLists(typeclass) ==
    UNION {{ListOf([i \in 1..n |-> <<IndexText(i - 1), q[i]>>]) :
               q \in [1..n -> NativeElements(typeclass)]} : n \in 0..MaxElements}

NativeDicts(typeclass) ==
    {DictOf(q) :
        q \in {r \in UNION {[1..n -> {<<"a">>, <<"b">>, <<"c">>} \X NativeElements(typeclass)] :
                               n \in 0..MaxElements} :
                  \A i, j \in DOMAIN r : i # j => r[i][1] # r[j][1]}}

\* The converter of the context exports a field of ListType.
ListExportOp ==
    /\ pc = "idle"
    /\ \E field \in InnerExportFields, converter \in ExportConverters :
          \E value \in NativeLists(field.typeclass) :
             LET self == [typeclass |-> "ListType", field |-> field]
                 context == [field_converter |-> converter]
             IN  /\ call' = [op |-> "ListType.export", self |-> self,
                             value |-> value, context |-> context]
                 /\ ret' = ListType_export(self, value, FormatOf(converter, self), context)
    /\ pc' = "done"

\* The converter of the context exports a field of DictType.
DictExportOp ==
    /\ pc = "idle"
    /\ \E field \in InnerExportFields, converter \in ExportConverters :
          \E value \in NativeDicts(field.typeclass) :
             LET self == [typeclass |-> "DictType", field |-> field]
                 context == [field_converter |-> converter]
             IN  /\ call' = [op |-> "DictType.export", self |-> self,
                             value |-> value, context |-> context]
                 /\ ret' = DictType_export(self, value, FormatOf(converter, self), context)
    /\ pc' = "done"

\* ---- the arguments of convert ----
RawElements == {Scalar("r1"), Scalar("r2"), Scalar("bad"), Scalar(None)}

\* The inner field of the List or Dict.
InnerImportFields ==
    {ImportField_("e", None, <<>>, Undefined, compound, required) :
        compound \in BOOLEAN, required \in BOOLEAN}

ImportConverters == {"import_converter", "validation_converter"}

RawLists ==
    UNION {{ListOf([i \in 1..n |-> <<IndexText(i - 1), q[i]>>]) :
               q \in [1..n -> RawElements]} : n \in 0..MaxElements}

\* Mappings of up to MaxElements different keys, in every iteration order,
\* with and without __reversed__.
RawMappings(keys) ==
    {[t |-> kind, s |-> "", items |-> q] :
        kind \in {"dict", "odict"},
        q \in {r \in UNION {[1..n -> keys \X RawElements] : n \in 0..MaxElements} :
                  \A i, j \in DOMAIN r : i # j => r[i][1] # r[j][1]}}

ListConvertOp ==
    /\ pc = "idle"
    /\ \E field \in InnerImportFields, converter \in ImportConverters,
          value \in RawLists \cup RawMappings({<<"a">>, <<"b">>}) \cup {Scalar("text")} :
          /\ call' = [op |-> "ListType.convert", self |-> [field |-> field],
                      value |-> value, context |-> [field_converter |-> converter]]
          /\ ret' = ListType_convert([field |-> field], value,
                                     [field_converter |-> converter])
    /\ pc' = "done"

DictConvertOp ==
    /\ pc = "idle"
    /\ \E field \in InnerImportFields, converter \in ImportConverters,
          value \in RawMappings({<<"a">>, <<"1">>, <<"i1">>}) \cup {ListOf(<<>>)} :
          /\ call' = [op |-> "DictType.convert", self |-> [field |-> field],
                      value |-> value, context |-> [field_converter |-> converter]]
          /\ ret' = DictType_convert([field |-> field], value,
                                     [field_converter |-> converter])
    /\ pc' = "done"

NextCompound ==
    \/ CheckLengthOp
    \/ ListConvertOp
    \/ DictConvertOp
    \/ ListExportOp
    \/ DictExportOp
    \/ Return

SpecCompound == Init /\ [][NextCompound]_vars

(***************************************************************************)
(* Properties of check_length and convert.                                 *)
(***************************************************************************)
CheckLengthDone == pc = "done" /\ call.op = "check_length"

\* n: the number of elements, 0 for a null or empty value.
ElementCount == IF call.value.t = "list" THEN Len(call.value.items) ELSE 0

TooFew == call.self.min_size.given /\ ElementCount < call.self.min_size.size

TooMany == call.self.max_size.given /\ ElementCount > call.self.max_size.size

\* C13: check_length fails with a ValidationError iff n < min_size, with a
\* message about min_size, or n > max_size, with a message about max_size
\* (n is 0 for a null or empty value); a bound that is not configured never
\* fails; the message is singular for a bound of 1.
C13_CheckLength ==
    CheckLengthDone =>
        /\ ret.raised = "ValidationError" <=> (TooFew \/ TooMany)
        /\ ret.raised = "none" <=> ~(TooFew \/ TooMany)
        /\ TooFew => ret.message = LengthMessage("min_size", call.self.min_size.size)
        /\ (TooMany /\ ~TooFew) =>
              ret.message = LengthMessage("max_size", call.self.max_size.size)
        /\ (~call.self.min_size.given /\ ~call.self.max_size.given) =>
              ret.raised = "none"

\* min 2 / max 3 and a list of four elements: it fails on the maximum.
C13_Witness ==
    /\ CheckLengthDone
    /\ call.self = [min_size |-> Size(2), max_size |-> Size(3)]
    /\ call.value = ListOfLength(4)
    /\ ret.raised = "ValidationError"
    /\ ret.message = [about |-> "max_size", size |-> 3, plural |-> TRUE]

ListConvertDone == pc = "done" /\ call.op = "ListType.convert"

DictConvertDone == pc = "done" /\ call.op = "DictType.convert"

\* Whether the converter rejects an element, and what it makes of one it
\* accepts.
Rejected(item) ==
    \/ item.s = "bad"
    \/ call.self.field.required /\ item.s = None

ConvertedForm(item) ==
    IF item.s = None THEN Scalar(None)
    ELSE Scalar((IF call.context.field_converter = "import_converter"
                 THEN "n:" ELSE "v:") \o item.s)

\* The elements of the list after coercion.
Coerced == ListType_coerce(call.value).value

ListConvertHolds ==
    (ListConvertDone /\ ret.raised # "ConversionError") =>
        /\ ret.passed = Coerced
        /\ ret.raised = "CompoundError" <=> \E i \in DOMAIN Coerced : Rejected(Coerced[i])
        /\ Keys(ret.errors) = {IndexText(i - 1) : i \in {j \in DOMAIN Coerced : Rejected(Coerced[j])}}
        /\ ret.raised = "none" =>
              /\ Len(ret.data) = Len(Coerced)
              /\ \A i \in DOMAIN Coerced : ret.data[i][2] = ConvertedForm(Coerced[i])

DictConvertErrorsHold ==
    (DictConvertDone /\ ret.raised # "ConversionError") =>
        /\ ret.passed = [i \in DOMAIN call.value.items |-> call.value.items[i][2]]
        /\ ret.raised = "CompoundError"
              <=> \E i \in DOMAIN call.value.items : Rejected(call.value.items[i][2])
        /\ Keys(ret.errors) =
              {call.value.items[i][1] :
                  i \in {j \in DOMAIN call.value.items : Rejected(call.value.items[j][2])}}

\* C14, as claimed: every element is passed to the converter; the call
\* fails with a CompoundError iff an element failed, keyed by exactly the
\* indices or keys of the failing elements; with no failure the result holds
\* ONE converted value PER INPUT ELEMENT, in input order for List and under
\* the coerced key for Dict.
C14_OneValuePerElement ==
    /\ ListConvertHolds
    /\ DictConvertErrorsHold
    /\ (DictConvertDone /\ ret.raised = "none") =>
          /\ Len(ret.data) = Len(call.value.items)
          /\ \A i \in DOMAIN call.value.items :
                <<CoerceKey(call.value.items[i][1]),
                  ConvertedForm(call.value.items[i][2])>> \in Range(ret.data)

\* The last input item whose key coerces to key.
LastUnder(key) ==
    CHOOSE i \in DOMAIN call.value.items :
        /\ CoerceKey(call.value.items[i][1]) = key
        /\ \A j \in DOMAIN call.value.items :
              CoerceKey(call.value.items[j][1]) = key => j <= i

\* C14, amended: as claimed, but for Dict the result holds one converted
\* value per COERCED KEY: when several input keys coerce to the same key,
\* the value of the last of them in iteration order.
C14_ConvertElements ==
    /\ ListConvertHolds
    /\ DictConvertErrorsHold
    /\ (DictConvertDone /\ ret.raised = "none") =>
          /\ Keys(ret.data) = {CoerceKey(call.value.items[i][1]) : i \in DOMAIN call.value.items}
          /\ Len(ret.data) = Cardinality(Keys(ret.data))
          /\ \A i \in DOMAIN ret.data :
                ret.data[i][2] =
                    ConvertedForm(call.value.items[LastUnder(ret.data[i][1])][2])

\* [bad, r1, bad]: the second and third elements are still converted, and
\* the error is keyed by 0 and 2.
C14_Witness ==
    /\ ListConvertDone
    /\ Len(Coerced) = 3
    /\ Coerced[1].s = "bad" /\ Coerced[2].s = "r1" /\ Coerced[3].s = "bad"
    /\ ret.passed = Coerced
    /\ ret.raised = "CompoundError"
    /\ Keys(ret.errors) = {<<"0">>, <<"2">>}

(***************************************************************************)
(* Properties of export of the compound types.                             *)
(***************************************************************************)
ListExportDone == pc = "done" /\ call.op = "ListType.export"

DictExportDone == pc = "done" /\ call.op = "DictType.export"

\* The exported form of the i-th element, in the format the call used.
ShapedAt(i) ==
    FieldExport(call.self.field, call.value.items[i][2],
                FormatOf(call.context.field_converter, call.self),
                call.context).shaped

\* The level rules of export_loop, for the i-th element.
DroppedAt(i) ==
    \/ call.self.field.export_level = DROP
    \/ ShapedAt(i) = Scalar(None) /\ call.self.field.export_level <= NOT_NONE
    \/ /\ ShapedAt(i) # Scalar(None)
       /\ IsCompound(call.self.field)
       /\ Len(ShapedAt(i).items) = 0
       /\ call.self.field.export_level <= NONEMPTY

KeptIndices == {i \in DOMAIN call.value.items : ~DroppedAt(i)}

\* The i-th of the kept elements.
RECURSIVE KeptSeq(_)
KeptSeq(i) ==
    IF i > Len(call.value.items) THEN <<>>
    ELSE (IF DroppedAt(i) THEN <<>> ELSE <<i>>) \o KeptSeq(i + 1)

\* A null element of a compound inner field: its export is the export of
\* the null.
NullInCompound ==
    /\ IsCompound(call.self.field)
    /\ call.self.field.export_level # DROP
    /\ \E i \in DOMAIN call.value.items : call.value.items[i][2] = Scalar(None)

ExportLevelRules ==
    /\ ListExportDone =>
          /\ Len(ret.data) = Len(KeptSeq(1))
          /\ \A n \in DOMAIN ret.data : ret.data[n][2] = ShapedAt(KeptSeq(1)[n])
    /\ DictExportDone =>
          /\ Len(ret.data) = Len(KeptSeq(1))
          /\ \A n \in DOMAIN ret.data :
                ret.data[n] = <<call.value.items[KeptSeq(1)[n]][1], ShapedAt(KeptSeq(1)[n])>>

\* C15: List and Dict export apply the level of the inner field to each
\* element by the rules of export_loop: at DROP the result is empty; an
\* element whose exported form is null is dropped when level <= NOT_NONE; an
\* element of a compound inner field whose exported form is empty is dropped
\* when level <= NONEMPTY; all other elements are kept in order (List) or
\* under their key (Dict); List export always returns a list and never
\* fails.
C15_ExportLevels ==
    /\ ListExportDone => ret.raised = "none"
    /\ ((ListExportDone \/ DictExportDone) /\ ret.raised = "none") => ExportLevelRules

\* C16: compound types recurse through the converter of the context in both
\* directions: convert passes every element to context.field_converter with
\* the inner field, and export shapes every element as the converter of the
\* context would, with the format the converter chooses for the inner field.
C16_ThroughConverter ==
    /\ (ListConvertDone /\ ret.raised # "ConversionError") => ret.passed = Coerced
    /\ (DictConvertDone /\ ret.raised # "ConversionError") =>
          ret.passed = [i \in DOMAIN call.value.items |-> call.value.items[i][2]]
    /\ (ListExportDone \/ DictExportDone) =>
          \A i \in DOMAIN ret.formats :
             ret.formats[i] = FormatOf(call.context.field_converter, call.self.field)

(***************************************************************************)
(* trusted_data in import_loop.                                            *)
(***************************************************************************)
TrustedImportDone ==
    /\ pc = "done" /\ call.op = "import_loop"
    /\ ret.raised # "ConversionError"

\* The data the call hands back: the mapping returned, or the partial data
\* of the DataError.
HandedBack == IF ret.raised = "none" THEN ret.data ELSE ret.partial_data

\* The declared fields whose name is in trusted_data.
TrustedFields ==
    {i \in DOMAIN call.cls.fields : call.cls.fields[i].name \in DOMAIN call.trusted_data}

\* The input holds a value for the field under one of its acceptable keys.
InInput(field) ==
    /\ call.instance_or_dict.kind = "dict"
    /\ \E k \in {field.name, field.serialized_name} \cup Range(field.deserialize_from)
                   \cup Range(MappingGet(call.kwargs.mapping, field.name)) :
          k \in DOMAIN call.instance_or_dict.items

TrustedKept ==
    /\ ret.trusted_data = call.trusted_data
    /\ \A i \in TrustedFields :
          LET field == call.cls.fields[i]
          IN  ~InInput(field) =>
                 /\ field.name \in DOMAIN HandedBack
                 /\ HandedBack[field.name] = call.trusted_data[field.name]
                 /\ \A n \in DOMAIN ret.passed : ret.passed[n].name # field.name

\* The outcome holds, for the field, something else than the trusted value.
Replaced(field) ==
    \/ field.name \notin DOMAIN HandedBack
    \/ HandedBack[field.name] # call.trusted_data[field.name]

HasError(field) == ErrorKey(field) \in DOMAIN ret.errors

\* C19, as claimed: trusted_data and the input are never mutated; a field
\* with no value in the input and its name in trusted_data keeps the trusted
\* value, is not converted and is not overridden by apply_defaults or
\* init_values; a value present in the input replaces the trusted value
\* ONLY after it converts successfully.
C19_ReplacedOnlyOnSuccess ==
    TrustedImportDone =>
        /\ TrustedKept
        /\ \A i \in TrustedFields :
              LET field == call.cls.fields[i]
              IN  (InInput(field) /\ Replaced(field)) => ~HasError(field)

\* C19, amended: as claimed, except that when the conversion of a compound
\* field fails with a DataError, the partial data of that error replaces
\* the trusted value in the partial data of the DataError the call raises.
C19_TrustedPrecedence ==
    TrustedImportDone =>
        /\ TrustedKept
        /\ \A i \in TrustedFields :
              LET field == call.cls.fields[i]
              IN  (InInput(field) /\ Replaced(field)) =>
                     \/ ~HasError(field)
                     \/ /\ field.is_compound
                        /\ ret.errors[ErrorKey(field)] = "DataError"
                        /\ HandedBack[field.name] = "pd"

\* Field a has a default and a trusted value and no input, with
\* apply_defaults and init_values set: the trusted value stays and only b
\* is converted.
C19_Witness ==
    /\ TrustedImportDone
    /\ call.kwargs.apply_defaults /\ call.kwargs.init_values
    /\ call.cls.fields[1].default = "dflt"
    /\ call.trusted_data = [n \in {"a"} |-> "t_a"]
    /\ call.instance_or_dict.kind = "dict"
    /\ DOMAIN call.instance_or_dict.items = {"b"}
    /\ ret.raised = "none"
    /\ ret.data["a"] = "t_a"
    /\ Len(ret.passed) = 1 /\ ret.passed[1].name = "b"

(***************************************************************************)
(* Chains of nested import_loop / export_loop calls sharing a Context.     *)
(*                                                                         *)
(* Contexts are objects: heap holds them, and a call refers to its Context *)
(* by its index in heap, so that a change a nested call made to a shared   *)
(* Context would show in the calls above it.  stack holds one frame per    *)
(* call of the chain, outermost first: kwargs (the keyword options of the  *)
(* call), ctx (its Context), entry (the Context as the call received it)   *)
(* and handed (the Context the loop handed to the field converter for the  *)
(* field it is at).                                                        *)
(***************************************************************************)
MaxDepth == 3

\* export_loop, lines 196-206.
MakeExportContext(context, kwargs) ==
    IF context.initialized THEN context
    ELSE [initialized |-> TRUE, role |-> kwargs.role,
          raise_error_on_role |-> kwargs.raise_error_on_role,
          export_level |-> kwargs.export_level]

\* Context._branch(mapping=submap): a copy that differs in mapping.
Context_branch(context, submap) == [context EXCEPT !.mapping = submap]

\* Lines 141-145: the mapping of the child Context of a compound field.
SubMap(context, field_name) ==
    IF "model_mapping" \in DOMAIN context.mapping
    THEN context.mapping["model_mapping"][field_name]
    ELSE EmptyDict

\* The mappings of a call: none, the aliases of the nested model, and the
\* aliases of the nested model with those of the model nested in it.
InnerMapping == [f \in {"a"} |-> <<"m">>]

MiddleMapping == [k \in {"model_mapping"} |-> [f \in {"a"} |-> InnerMapping]]

ChainMappings ==
    {EmptyDict,
     [k \in {"model_mapping"} |-> [f \in {"a"} |-> InnerMapping]],
     [k \in {"model_mapping"} |-> [f \in {"a"} |-> MiddleMapping]]}

ImportChainKwargs ==
    {Kwargs(mapping, strict, FALSE, apply_defaults) :
        mapping \in ChainMappings, strict \in BOOLEAN, apply_defaults \in BOOLEAN}

ExportChainKwargs ==
    {[role |-> role, raise_error_on_role |-> e, export_level |-> level] :
        role \in {None, "public"}, e \in BOOLEAN, level \in {DEFAULT, NOT_NONE}}

ChainKwargs(kind) == IF kind = "import_loop" THEN ImportChainKwargs ELSE ExportChainKwargs

\* The Context of a call after lines 77-93 / 196-206.
SetUp(kind, context, kwargs) ==
    IF kind = "import_loop" THEN MakeContext(context, kwargs)
    ELSE MakeExportContext(context, kwargs)

Frame(kwargs, ctx, entry) ==
    [kwargs |-> kwargs, ctx |-> ctx, entry |-> entry, handed |-> <<>>]

Depth == Len(ret.stack)

Top == ret.stack[Depth]

\* A top-level call: Context._make(None) makes a new Context and the call
\* sets its defaults.
ChainStartOp ==
    /\ pc = "idle"
    /\ \E kind \in {"import_loop", "export_loop"} :
          \E kwargs \in ChainKwargs(kind) :
             /\ call' = [op |-> "chain", kind |-> kind]
             /\ ret' = [heap |-> <<SetUp(kind, NoContext, kwargs)>>,
                        stack |-> <<Frame(kwargs, 1, NoContext)>>]
    /\ pc' = "chain"

\* The loop of the innermost call converts a field that is not compound:
\* field_context = context (line 147; export_loop line 235).
HandScalarField ==
    /\ pc = "chain"
    /\ ret' = [ret EXCEPT !.stack[Depth].handed =
                              <<[compound |-> FALSE, ctx |-> Top.ctx]>>]
    /\ UNCHANGED <<pc, call>>

\* The loop of the innermost call converts a compound field holding a
\* model: import_loop branches the Context (lines 140-146), export_loop
\* passes its own; the converter reaches the loop of the nested model with
\* that Context and keyword options of its own.
DescendCompoundField ==
    /\ pc = "chain"
    /\ Depth < MaxDepth
    /\ \E kwargs \in ChainKwargs(call.kind) :
          LET branched == call.kind = "import_loop"
              heap1 == IF branched
                       THEN Append(ret.heap,
                                   Context_branch(ret.heap[Top.ctx],
                                                  SubMap(ret.heap[Top.ctx], "a")))
                       ELSE ret.heap
              ctx == IF branched THEN Len(heap1) ELSE Top.ctx
          IN  ret' = [heap |-> [heap1 EXCEPT ![ctx] = SetUp(call.kind, heap1[ctx], kwargs)],
                      stack |-> Append([ret.stack EXCEPT ![Depth].handed =
                                            <<[compound |-> TRUE, ctx |-> ctx]>>],
                                       Frame(kwargs, ctx, heap1[ctx]))]
    /\ UNCHANGED <<pc, call>>

\* The nested call returns; a branched Context is discarded with it.
NestedReturn ==
    /\ pc = "chain"
    /\ Depth > 1
    /\ ret' = [heap |-> SubSeq(ret.heap, 1, ret.stack[Depth - 1].ctx),
               stack |-> [SubSeq(ret.stack, 1, Depth - 1) EXCEPT ![Depth - 1].handed = <<>>]]
    /\ UNCHANGED <<pc, call>>

\* The outermost call returns.
ChainDone ==
    /\ pc = "chain"
    /\ Depth = 1
    /\ pc' = "done"
    /\ UNCHANGED <<call, ret>>

NextChain ==
    \/ ChainStartOp
    \/ HandScalarField
    \/ DescendCompoundField
    \/ NestedReturn
    \/ ChainDone
    \/ Return

SpecChain == Init /\ [][NextChain]_vars

(***************************************************************************)
(* Properties of the Context in a chain.                                   *)
(***************************************************************************)
InChain == pc = "chain" /\ call.op = "chain"

\* The Context of the i-th call of the chain, as it is now.
ContextOf(i) == ret.heap[ret.stack[i].ctx]

\* The options of a Context are those the keyword options give.
OptionsFrom(context, kwargs) ==
    IF call.kind = "import_loop"
    THEN /\ context.strict = kwargs.strict
         /\ context.init_values = kwargs.init_values
         /\ context.apply_defaults = kwargs.apply_defaults
    ELSE /\ context.role = kwargs.role
         /\ context.raise_error_on_role = kwargs.raise_error_on_role
         /\ context.export_level = kwargs.export_level

\* Two Contexts differ in nothing or in mapping only.
SameButMapping(c, d) ==
    IF call.kind = "import_loop" THEN [c EXCEPT !.mapping = d.mapping] = d ELSE c = d

====
